---- MODULE Spec2Model ----
(***************************************************************************)
(* API-project ingestion pipeline of the adapter (apis_impl.go) and the    *)
(* manifest model (api_yaml.go), over the deployment index kept by the xds *)
(* package.  Strings on which the code computes (API type, endpoint URL,   *)
(* list query) are sequences of runes, a rune being a one-character string *)
(* or, outside what a TLA+ string can hold, the name U+XXXX of the rune;   *)
(* identifiers that are only compared (UUID, name, version, vhost,         *)
(* environment) are plain strings.  An error value is a sequence of        *)
(* message tokens; nil is <<>>.                                            *)
(***************************************************************************)
EXTENDS Integers, Sequences, FiniteSets, TLC

\* ------------------------------------------------------------------ bounds
\* Revision ids carried by manifests are 1..MaxRevision.
MaxRevision == 2
\* Children of the artifacts directory enumerated by one bootstrap.
MaxArtifacts == 2

\* ----------------------------------------------------------------- strings
LowerLetters == <<"a","b","c","d","e","f","g","h","i","j","k","l","m",
                  "n","o","p","q","r","s","t","u","v","w","x","y","z">>
UpperLetters == <<"A","B","C","D","E","F","G","H","I","J","K","L","M",
                  "N","O","P","Q","R","S","T","U","V","W","X","Y","Z">>

\* the runes outside ASCII that unicode.ToUpper changes (the case tables of
\* Unicode 13.0), and what it gives for each
LowerRunes == <<"U+00B5","U+00E0","U+00E1","U+00E2","U+00E3","U+00E4",
                "U+00E5","U+00E6","U+00E7","U+00E8","U+00E9","U+00EA",
                "U+00EB","U+00EC","U+00ED","U+00EE","U+00EF","U+00F0",
                "U+00F1","U+00F2","U+00F3","U+00F4","U+00F5","U+00F6",
                "U+00F8","U+00F9","U+00FA","U+00FB","U+00FC","U+00FD",
                "U+00FE","U+00FF","U+0101","U+0103","U+0105","U+0107",
                "U+0109","U+010B","U+010D","U+010F","U+0111","U+0113",
                "U+0115","U+0117","U+0119","U+011B","U+011D","U+011F",
                "U+0121","U+0123","U+0125","U+0127","U+0129","U+012B",
                "U+012D","U+012F","U+0131","U+0133","U+0135","U+0137",
                "U+013A","U+013C","U+013E","U+0140","U+0142","U+0144",
                "U+0146","U+0148","U+014B","U+014D","U+014F","U+0151",
                "U+0153","U+0155","U+0157","U+0159","U+015B","U+015D",
                "U+015F","U+0161","U+0163","U+0165","U+0167","U+0169",
                "U+016B","U+016D","U+016F","U+0171","U+0173","U+0175",
                "U+0177","U+017A","U+017C","U+017E","U+017F","U+0180",
                "U+0183","U+0185","U+0188","U+018C","U+0192","U+0195",
                "U+0199","U+019A","U+019E","U+01A1","U+01A3","U+01A5",
                "U+01A8","U+01AD","U+01B0","U+01B4","U+01B6","U+01B9",
                "U+01BD","U+01BF","U+01C5","U+01C6","U+01C8","U+01C9",
                "U+01CB","U+01CC","U+01CE","U+01D0","U+01D2","U+01D4",
                "U+01D6","U+01D8","U+01DA","U+01DC","U+01DD","U+01DF",
                "U+01E1","U+01E3","U+01E5","U+01E7","U+01E9","U+01EB",
                "U+01ED","U+01EF","U+01F2","U+01F3","U+01F5","U+01F9",
                "U+01FB","U+01FD","U+01FF","U+0201","U+0203","U+0205",
                "U+0207","U+0209","U+020B","U+020D","U+020F","U+0211",
                "U+0213","U+0215","U+0217","U+0219","U+021B","U+021D",
                "U+021F","U+0223","U+0225","U+0227","U+0229","U+022B",
                "U+022D","U+022F","U+0231","U+0233","U+023C","U+023F",
                "U+0240","U+0242","U+0247","U+0249","U+024B","U+024D",
                "U+024F","U+0250","U+0251","U+0252","U+0253","U+0254",
                "U+0256","U+0257","U+0259","U+025B","U+025C","U+0260",
                "U+0261","U+0263","U+0265","U+0266","U+0268","U+0269",
                "U+026A","U+026B","U+026C","U+026F","U+0271","U+0272",
                "U+0275","U+027D","U+0280","U+0282","U+0283","U+0287",
                "U+0288","U+0289","U+028A","U+028B","U+028C","U+0292",
                "U+029D","U+029E","U+0345","U+0371","U+0373","U+0377",
                "U+037B","U+037C","U+037D","U+03AC","U+03AD","U+03AE",
                "U+03AF","U+03B1","U+03B2","U+03B3","U+03B4","U+03B5",
                "U+03B6","U+03B7","U+03B8","U+03B9","U+03BA","U+03BB",
                "U+03BC","U+03BD","U+03BE","U+03BF","U+03C0","U+03C1",
                "U+03C2","U+03C3","U+03C4","U+03C5","U+03C6","U+03C7",
                "U+03C8","U+03C9","U+03CA","U+03CB","U+03CC","U+03CD",
                "U+03CE","U+03D0","U+03D1","U+03D5","U+03D6","U+03D7",
                "U+03D9","U+03DB","U+03DD","U+03DF","U+03E1","U+03E3",
                "U+03E5","U+03E7","U+03E9","U+03EB","U+03ED","U+03EF",
                "U+03F0","U+03F1","U+03F2","U+03F3","U+03F5","U+03F8",
                "U+03FB","U+0430","U+0431","U+0432","U+0433","U+0434",
                "U+0435","U+0436","U+0437","U+0438","U+0439","U+043A",
                "U+043B","U+043C","U+043D","U+043E","U+043F","U+0440",
                "U+0441","U+0442","U+0443","U+0444","U+0445","U+0446",
                "U+0447","U+0448","U+0449","U+044A","U+044B","U+044C",
                "U+044D","U+044E","U+044F","U+0450","U+0451","U+0452",
                "U+0453","U+0454","U+0455","U+0456","U+0457","U+0458",
                "U+0459","U+045A","U+045B","U+045C","U+045D","U+045E",
                "U+045F","U+0461","U+0463","U+0465","U+0467","U+0469",
                "U+046B","U+046D","U+046F","U+0471","U+0473","U+0475",
                "U+0477","U+0479","U+047B","U+047D","U+047F","U+0481",
                "U+048B","U+048D","U+048F","U+0491","U+0493","U+0495",
                "U+0497","U+0499","U+049B","U+049D","U+049F","U+04A1",
                "U+04A3","U+04A5","U+04A7","U+04A9","U+04AB","U+04AD",
                "U+04AF","U+04B1","U+04B3","U+04B5","U+04B7","U+04B9",
                "U+04BB","U+04BD","U+04BF","U+04C2","U+04C4","U+04C6",
                "U+04C8","U+04CA","U+04CC","U+04CE","U+04CF","U+04D1",
                "U+04D3","U+04D5","U+04D7","U+04D9","U+04DB","U+04DD",
                "U+04DF","U+04E1","U+04E3","U+04E5","U+04E7","U+04E9",
                "U+04EB","U+04ED","U+04EF","U+04F1","U+04F3","U+04F5",
                "U+04F7","U+04F9","U+04FB","U+04FD","U+04FF","U+0501",
                "U+0503","U+0505","U+0507","U+0509","U+050B","U+050D",
                "U+050F","U+0511","U+0513","U+0515","U+0517","U+0519",
                "U+051B","U+051D","U+051F","U+0521","U+0523","U+0525",
                "U+0527","U+0529","U+052B","U+052D","U+052F","U+0561",
                "U+0562","U+0563","U+0564","U+0565","U+0566","U+0567",
                "U+0568","U+0569","U+056A","U+056B","U+056C","U+056D",
                "U+056E","U+056F","U+0570","U+0571","U+0572","U+0573",
                "U+0574","U+0575","U+0576","U+0577","U+0578","U+0579",
                "U+057A","U+057B","U+057C","U+057D","U+057E","U+057F",
                "U+0580","U+0581","U+0582","U+0583","U+0584","U+0585",
                "U+0586","U+10D0","U+10D1","U+10D2","U+10D3","U+10D4",
                "U+10D5","U+10D6","U+10D7","U+10D8","U+10D9","U+10DA",
                "U+10DB","U+10DC","U+10DD","U+10DE","U+10DF","U+10E0",
                "U+10E1","U+10E2","U+10E3","U+10E4","U+10E5","U+10E6",
                "U+10E7","U+10E8","U+10E9","U+10EA","U+10EB","U+10EC",
                "U+10ED","U+10EE","U+10EF","U+10F0","U+10F1","U+10F2",
                "U+10F3","U+10F4","U+10F5","U+10F6","U+10F7","U+10F8",
                "U+10F9","U+10FA","U+10FD","U+10FE","U+10FF","U+13F8",
                "U+13F9","U+13FA","U+13FB","U+13FC","U+13FD","U+1C80",
                "U+1C81","U+1C82","U+1C83","U+1C84","U+1C85","U+1C86",
                "U+1C87","U+1C88","U+1D79","U+1D7D","U+1D8E","U+1E01",
                "U+1E03","U+1E05","U+1E07","U+1E09","U+1E0B","U+1E0D",
                "U+1E0F","U+1E11","U+1E13","U+1E15","U+1E17","U+1E19",
                "U+1E1B","U+1E1D","U+1E1F","U+1E21","U+1E23","U+1E25",
                "U+1E27","U+1E29","U+1E2B","U+1E2D","U+1E2F","U+1E31",
                "U+1E33","U+1E35","U+1E37","U+1E39","U+1E3B","U+1E3D",
                "U+1E3F","U+1E41","U+1E43","U+1E45","U+1E47","U+1E49",
                "U+1E4B","U+1E4D","U+1E4F","U+1E51","U+1E53","U+1E55",
                "U+1E57","U+1E59","U+1E5B","U+1E5D","U+1E5F","U+1E61",
                "U+1E63","U+1E65","U+1E67","U+1E69","U+1E6B","U+1E6D",
                "U+1E6F","U+1E71","U+1E73","U+1E75","U+1E77","U+1E79",
                "U+1E7B","U+1E7D","U+1E7F","U+1E81","U+1E83","U+1E85",
                "U+1E87","U+1E89","U+1E8B","U+1E8D","U+1E8F","U+1E91",
                "U+1E93","U+1E95","U+1E9B","U+1EA1","U+1EA3","U+1EA5",
                "U+1EA7","U+1EA9","U+1EAB","U+1EAD","U+1EAF","U+1EB1",
                "U+1EB3","U+1EB5","U+1EB7","U+1EB9","U+1EBB","U+1EBD",
                "U+1EBF","U+1EC1","U+1EC3","U+1EC5","U+1EC7","U+1EC9",
                "U+1ECB","U+1ECD","U+1ECF","U+1ED1","U+1ED3","U+1ED5",
                "U+1ED7","U+1ED9","U+1EDB","U+1EDD","U+1EDF","U+1EE1",
                "U+1EE3","U+1EE5","U+1EE7","U+1EE9","U+1EEB","U+1EED",
                "U+1EEF","U+1EF1","U+1EF3","U+1EF5","U+1EF7","U+1EF9",
                "U+1EFB","U+1EFD","U+1EFF","U+1F00","U+1F01","U+1F02",
                "U+1F03","U+1F04","U+1F05","U+1F06","U+1F07","U+1F10",
                "U+1F11","U+1F12","U+1F13","U+1F14","U+1F15","U+1F20",
                "U+1F21","U+1F22","U+1F23","U+1F24","U+1F25","U+1F26",
                "U+1F27","U+1F30","U+1F31","U+1F32","U+1F33","U+1F34",
                "U+1F35","U+1F36","U+1F37","U+1F40","U+1F41","U+1F42",
                "U+1F43","U+1F44","U+1F45","U+1F51","U+1F53","U+1F55",
                "U+1F57","U+1F60","U+1F61","U+1F62","U+1F63","U+1F64",
                "U+1F65","U+1F66","U+1F67","U+1F70","U+1F71","U+1F72",
                "U+1F73","U+1F74","U+1F75","U+1F76","U+1F77","U+1F78",
                "U+1F79","U+1F7A","U+1F7B","U+1F7C","U+1F7D","U+1F80",
                "U+1F81","U+1F82","U+1F83","U+1F84","U+1F85","U+1F86",
                "U+1F87","U+1F90","U+1F91","U+1F92","U+1F93","U+1F94",
                "U+1F95","U+1F96","U+1F97","U+1FA0","U+1FA1","U+1FA2",
                "U+1FA3","U+1FA4","U+1FA5","U+1FA6","U+1FA7","U+1FB0",
                "U+1FB1","U+1FB3","U+1FBE","U+1FC3","U+1FD0","U+1FD1",
                "U+1FE0","U+1FE1","U+1FE5","U+1FF3","U+214E","U+2170",
                "U+2171","U+2172","U+2173","U+2174","U+2175","U+2176",
                "U+2177","U+2178","U+2179","U+217A","U+217B","U+217C",
                "U+217D","U+217E","U+217F","U+2184","U+24D0","U+24D1",
                "U+24D2","U+24D3","U+24D4","U+24D5","U+24D6","U+24D7",
                "U+24D8","U+24D9","U+24DA","U+24DB","U+24DC","U+24DD",
                "U+24DE","U+24DF","U+24E0","U+24E1","U+24E2","U+24E3",
                "U+24E4","U+24E5","U+24E6","U+24E7","U+24E8","U+24E9",
                "U+2C30","U+2C31","U+2C32","U+2C33","U+2C34","U+2C35",
                "U+2C36","U+2C37","U+2C38","U+2C39","U+2C3A","U+2C3B",
                "U+2C3C","U+2C3D","U+2C3E","U+2C3F","U+2C40","U+2C41",
                "U+2C42","U+2C43","U+2C44","U+2C45","U+2C46","U+2C47",
                "U+2C48","U+2C49","U+2C4A","U+2C4B","U+2C4C","U+2C4D",
                "U+2C4E","U+2C4F","U+2C50","U+2C51","U+2C52","U+2C53",
                "U+2C54","U+2C55","U+2C56","U+2C57","U+2C58","U+2C59",
                "U+2C5A","U+2C5B","U+2C5C","U+2C5D","U+2C5E","U+2C61",
                "U+2C65","U+2C66","U+2C68","U+2C6A","U+2C6C","U+2C73",
                "U+2C76","U+2C81","U+2C83","U+2C85","U+2C87","U+2C89",
                "U+2C8B","U+2C8D","U+2C8F","U+2C91","U+2C93","U+2C95",
                "U+2C97","U+2C99","U+2C9B","U+2C9D","U+2C9F","U+2CA1",
                "U+2CA3","U+2CA5","U+2CA7","U+2CA9","U+2CAB","U+2CAD",
                "U+2CAF","U+2CB1","U+2CB3","U+2CB5","U+2CB7","U+2CB9",
                "U+2CBB","U+2CBD","U+2CBF","U+2CC1","U+2CC3","U+2CC5",
                "U+2CC7","U+2CC9","U+2CCB","U+2CCD","U+2CCF","U+2CD1",
                "U+2CD3","U+2CD5","U+2CD7","U+2CD9","U+2CDB","U+2CDD",
                "U+2CDF","U+2CE1","U+2CE3","U+2CEC","U+2CEE","U+2CF3",
                "U+2D00","U+2D01","U+2D02","U+2D03","U+2D04","U+2D05",
                "U+2D06","U+2D07","U+2D08","U+2D09","U+2D0A","U+2D0B",
                "U+2D0C","U+2D0D","U+2D0E","U+2D0F","U+2D10","U+2D11",
                "U+2D12","U+2D13","U+2D14","U+2D15","U+2D16","U+2D17",
                "U+2D18","U+2D19","U+2D1A","U+2D1B","U+2D1C","U+2D1D",
                "U+2D1E","U+2D1F","U+2D20","U+2D21","U+2D22","U+2D23",
                "U+2D24","U+2D25","U+2D27","U+2D2D","U+A641","U+A643",
                "U+A645","U+A647","U+A649","U+A64B","U+A64D","U+A64F",
                "U+A651","U+A653","U+A655","U+A657","U+A659","U+A65B",
                "U+A65D","U+A65F","U+A661","U+A663","U+A665","U+A667",
                "U+A669","U+A66B","U+A66D","U+A681","U+A683","U+A685",
                "U+A687","U+A689","U+A68B","U+A68D","U+A68F","U+A691",
                "U+A693","U+A695","U+A697","U+A699","U+A69B","U+A723",
                "U+A725","U+A727","U+A729","U+A72B","U+A72D","U+A72F",
                "U+A733","U+A735","U+A737","U+A739","U+A73B","U+A73D",
                "U+A73F","U+A741","U+A743","U+A745","U+A747","U+A749",
                "U+A74B","U+A74D","U+A74F","U+A751","U+A753","U+A755",
                "U+A757","U+A759","U+A75B","U+A75D","U+A75F","U+A761",
                "U+A763","U+A765","U+A767","U+A769","U+A76B","U+A76D",
                "U+A76F","U+A77A","U+A77C","U+A77F","U+A781","U+A783",
                "U+A785","U+A787","U+A78C","U+A791","U+A793","U+A794",
                "U+A797","U+A799","U+A79B","U+A79D","U+A79F","U+A7A1",
                "U+A7A3","U+A7A5","U+A7A7","U+A7A9","U+A7B5","U+A7B7",
                "U+A7B9","U+A7BB","U+A7BD","U+A7BF","U+A7C3","U+A7C8",
                "U+A7CA","U+A7F6","U+AB53","U+AB70","U+AB71","U+AB72",
                "U+AB73","U+AB74","U+AB75","U+AB76","U+AB77","U+AB78",
                "U+AB79","U+AB7A","U+AB7B","U+AB7C","U+AB7D","U+AB7E",
                "U+AB7F","U+AB80","U+AB81","U+AB82","U+AB83","U+AB84",
                "U+AB85","U+AB86","U+AB87","U+AB88","U+AB89","U+AB8A",
                "U+AB8B","U+AB8C","U+AB8D","U+AB8E","U+AB8F","U+AB90",
                "U+AB91","U+AB92","U+AB93","U+AB94","U+AB95","U+AB96",
                "U+AB97","U+AB98","U+AB99","U+AB9A","U+AB9B","U+AB9C",
                "U+AB9D","U+AB9E","U+AB9F","U+ABA0","U+ABA1","U+ABA2",
                "U+ABA3","U+ABA4","U+ABA5","U+ABA6","U+ABA7","U+ABA8",
                "U+ABA9","U+ABAA","U+ABAB","U+ABAC","U+ABAD","U+ABAE",
                "U+ABAF","U+ABB0","U+ABB1","U+ABB2","U+ABB3","U+ABB4",
                "U+ABB5","U+ABB6","U+ABB7","U+ABB8","U+ABB9","U+ABBA",
                "U+ABBB","U+ABBC","U+ABBD","U+ABBE","U+ABBF","U+FF41",
                "U+FF42","U+FF43","U+FF44","U+FF45","U+FF46","U+FF47",
                "U+FF48","U+FF49","U+FF4A","U+FF4B","U+FF4C","U+FF4D",
                "U+FF4E","U+FF4F","U+FF50","U+FF51","U+FF52","U+FF53",
                "U+FF54","U+FF55","U+FF56","U+FF57","U+FF58","U+FF59",
                "U+FF5A","U+10428","U+10429","U+1042A","U+1042B","U+1042C",
                "U+1042D","U+1042E","U+1042F","U+10430","U+10431","U+10432",
                "U+10433","U+10434","U+10435","U+10436","U+10437","U+10438",
                "U+10439","U+1043A","U+1043B","U+1043C","U+1043D","U+1043E",
                "U+1043F","U+10440","U+10441","U+10442","U+10443","U+10444",
                "U+10445","U+10446","U+10447","U+10448","U+10449","U+1044A",
                "U+1044B","U+1044C","U+1044D","U+1044E","U+1044F","U+104D8",
                "U+104D9","U+104DA","U+104DB","U+104DC","U+104DD","U+104DE",
                "U+104DF","U+104E0","U+104E1","U+104E2","U+104E3","U+104E4",
                "U+104E5","U+104E6","U+104E7","U+104E8","U+104E9","U+104EA",
                "U+104EB","U+104EC","U+104ED","U+104EE","U+104EF","U+104F0",
                "U+104F1","U+104F2","U+104F3","U+104F4","U+104F5","U+104F6",
                "U+104F7","U+104F8","U+104F9","U+104FA","U+104FB","U+10CC0",
                "U+10CC1","U+10CC2","U+10CC3","U+10CC4","U+10CC5","U+10CC6",
                "U+10CC7","U+10CC8","U+10CC9","U+10CCA","U+10CCB","U+10CCC",
                "U+10CCD","U+10CCE","U+10CCF","U+10CD0","U+10CD1","U+10CD2",
                "U+10CD3","U+10CD4","U+10CD5","U+10CD6","U+10CD7","U+10CD8",
                "U+10CD9","U+10CDA","U+10CDB","U+10CDC","U+10CDD","U+10CDE",
                "U+10CDF","U+10CE0","U+10CE1","U+10CE2","U+10CE3","U+10CE4",
                "U+10CE5","U+10CE6","U+10CE7","U+10CE8","U+10CE9","U+10CEA",
                "U+10CEB","U+10CEC","U+10CED","U+10CEE","U+10CEF","U+10CF0",
                "U+10CF1","U+10CF2","U+118C0","U+118C1","U+118C2","U+118C3",
                "U+118C4","U+118C5","U+118C6","U+118C7","U+118C8","U+118C9",
                "U+118CA","U+118CB","U+118CC","U+118CD","U+118CE","U+118CF",
                "U+118D0","U+118D1","U+118D2","U+118D3","U+118D4","U+118D5",
                "U+118D6","U+118D7","U+118D8","U+118D9","U+118DA","U+118DB",
                "U+118DC","U+118DD","U+118DE","U+118DF","U+16E60","U+16E61",
                "U+16E62","U+16E63","U+16E64","U+16E65","U+16E66","U+16E67",
                "U+16E68","U+16E69","U+16E6A","U+16E6B","U+16E6C","U+16E6D",
                "U+16E6E","U+16E6F","U+16E70","U+16E71","U+16E72","U+16E73",
                "U+16E74","U+16E75","U+16E76","U+16E77","U+16E78","U+16E79",
                "U+16E7A","U+16E7B","U+16E7C","U+16E7D","U+16E7E","U+16E7F",
                "U+1E922","U+1E923","U+1E924","U+1E925","U+1E926","U+1E927",
                "U+1E928","U+1E929","U+1E92A","U+1E92B","U+1E92C","U+1E92D",
                "U+1E92E","U+1E92F","U+1E930","U+1E931","U+1E932","U+1E933",
                "U+1E934","U+1E935","U+1E936","U+1E937","U+1E938","U+1E939",
                "U+1E93A","U+1E93B","U+1E93C","U+1E93D","U+1E93E","U+1E93F",
                "U+1E940","U+1E941","U+1E942","U+1E943">>
UpperRunes == <<"U+039C","U+00C0","U+00C1","U+00C2","U+00C3","U+00C4",
                "U+00C5","U+00C6","U+00C7","U+00C8","U+00C9","U+00CA",
                "U+00CB","U+00CC","U+00CD","U+00CE","U+00CF","U+00D0",
                "U+00D1","U+00D2","U+00D3","U+00D4","U+00D5","U+00D6",
                "U+00D8","U+00D9","U+00DA","U+00DB","U+00DC","U+00DD",
                "U+00DE","U+0178","U+0100","U+0102","U+0104","U+0106",
                "U+0108","U+010A","U+010C","U+010E","U+0110","U+0112",
                "U+0114","U+0116","U+0118","U+011A","U+011C","U+011E",
                "U+0120","U+0122","U+0124","U+0126","U+0128","U+012A",
                "U+012C","U+012E","I","U+0132","U+0134","U+0136","U+0139",
                "U+013B","U+013D","U+013F","U+0141","U+0143","U+0145",
                "U+0147","U+014A","U+014C","U+014E","U+0150","U+0152",
                "U+0154","U+0156","U+0158","U+015A","U+015C","U+015E",
                "U+0160","U+0162","U+0164","U+0166","U+0168","U+016A",
                "U+016C","U+016E","U+0170","U+0172","U+0174","U+0176",
                "U+0179","U+017B","U+017D","S","U+0243","U+0182","U+0184",
                "U+0187","U+018B","U+0191","U+01F6","U+0198","U+023D",
                "U+0220","U+01A0","U+01A2","U+01A4","U+01A7","U+01AC",
                "U+01AF","U+01B3","U+01B5","U+01B8","U+01BC","U+01F7",
                "U+01C4","U+01C4","U+01C7","U+01C7","U+01CA","U+01CA",
                "U+01CD","U+01CF","U+01D1","U+01D3","U+01D5","U+01D7",
                "U+01D9","U+01DB","U+018E","U+01DE","U+01E0","U+01E2",
                "U+01E4","U+01E6","U+01E8","U+01EA","U+01EC","U+01EE",
                "U+01F1","U+01F1","U+01F4","U+01F8","U+01FA","U+01FC",
                "U+01FE","U+0200","U+0202","U+0204","U+0206","U+0208",
                "U+020A","U+020C","U+020E","U+0210","U+0212","U+0214",
                "U+0216","U+0218","U+021A","U+021C","U+021E","U+0222",
                "U+0224","U+0226","U+0228","U+022A","U+022C","U+022E",
                "U+0230","U+0232","U+023B","U+2C7E","U+2C7F","U+0241",
                "U+0246","U+0248","U+024A","U+024C","U+024E","U+2C6F",
                "U+2C6D","U+2C70","U+0181","U+0186","U+0189","U+018A",
                "U+018F","U+0190","U+A7AB","U+0193","U+A7AC","U+0194",
                "U+A78D","U+A7AA","U+0197","U+0196","U+A7AE","U+2C62",
                "U+A7AD","U+019C","U+2C6E","U+019D","U+019F","U+2C64",
                "U+01A6","U+A7C5","U+01A9","U+A7B1","U+01AE","U+0244",
                "U+01B1","U+01B2","U+0245","U+01B7","U+A7B2","U+A7B0",
                "U+0399","U+0370","U+0372","U+0376","U+03FD","U+03FE",
                "U+03FF","U+0386","U+0388","U+0389","U+038A","U+0391",
                "U+0392","U+0393","U+0394","U+0395","U+0396","U+0397",
                "U+0398","U+0399","U+039A","U+039B","U+039C","U+039D",
                "U+039E","U+039F","U+03A0","U+03A1","U+03A3","U+03A3",
                "U+03A4","U+03A5","U+03A6","U+03A7","U+03A8","U+03A9",
                "U+03AA","U+03AB","U+038C","U+038E","U+038F","U+0392",
                "U+0398","U+03A6","U+03A0","U+03CF","U+03D8","U+03DA",
                "U+03DC","U+03DE","U+03E0","U+03E2","U+03E4","U+03E6",
                "U+03E8","U+03EA","U+03EC","U+03EE","U+039A","U+03A1",
                "U+03F9","U+037F","U+0395","U+03F7","U+03FA","U+0410",
                "U+0411","U+0412","U+0413","U+0414","U+0415","U+0416",
                "U+0417","U+0418","U+0419","U+041A","U+041B","U+041C",
                "U+041D","U+041E","U+041F","U+0420","U+0421","U+0422",
                "U+0423","U+0424","U+0425","U+0426","U+0427","U+0428",
                "U+0429","U+042A","U+042B","U+042C","U+042D","U+042E",
                "U+042F","U+0400","U+0401","U+0402","U+0403","U+0404",
                "U+0405","U+0406","U+0407","U+0408","U+0409","U+040A",
                "U+040B","U+040C","U+040D","U+040E","U+040F","U+0460",
                "U+0462","U+0464","U+0466","U+0468","U+046A","U+046C",
                "U+046E","U+0470","U+0472","U+0474","U+0476","U+0478",
                "U+047A","U+047C","U+047E","U+0480","U+048A","U+048C",
                "U+048E","U+0490","U+0492","U+0494","U+0496","U+0498",
                "U+049A","U+049C","U+049E","U+04A0","U+04A2","U+04A4",
                "U+04A6","U+04A8","U+04AA","U+04AC","U+04AE","U+04B0",
                "U+04B2","U+04B4","U+04B6","U+04B8","U+04BA","U+04BC",
                "U+04BE","U+04C1","U+04C3","U+04C5","U+04C7","U+04C9",
                "U+04CB","U+04CD","U+04C0","U+04D0","U+04D2","U+04D4",
                "U+04D6","U+04D8","U+04DA","U+04DC","U+04DE","U+04E0",
                "U+04E2","U+04E4","U+04E6","U+04E8","U+04EA","U+04EC",
                "U+04EE","U+04F0","U+04F2","U+04F4","U+04F6","U+04F8",
                "U+04FA","U+04FC","U+04FE","U+0500","U+0502","U+0504",
                "U+0506","U+0508","U+050A","U+050C","U+050E","U+0510",
                "U+0512","U+0514","U+0516","U+0518","U+051A","U+051C",
                "U+051E","U+0520","U+0522","U+0524","U+0526","U+0528",
                "U+052A","U+052C","U+052E","U+0531","U+0532","U+0533",
                "U+0534","U+0535","U+0536","U+0537","U+0538","U+0539",
                "U+053A","U+053B","U+053C","U+053D","U+053E","U+053F",
                "U+0540","U+0541","U+0542","U+0543","U+0544","U+0545",
                "U+0546","U+0547","U+0548","U+0549","U+054A","U+054B",
                "U+054C","U+054D","U+054E","U+054F","U+0550","U+0551",
                "U+0552","U+0553","U+0554","U+0555","U+0556","U+1C90",
                "U+1C91","U+1C92","U+1C93","U+1C94","U+1C95","U+1C96",
                "U+1C97","U+1C98","U+1C99","U+1C9A","U+1C9B","U+1C9C",
                "U+1C9D","U+1C9E","U+1C9F","U+1CA0","U+1CA1","U+1CA2",
                "U+1CA3","U+1CA4","U+1CA5","U+1CA6","U+1CA7","U+1CA8",
                "U+1CA9","U+1CAA","U+1CAB","U+1CAC","U+1CAD","U+1CAE",
                "U+1CAF","U+1CB0","U+1CB1","U+1CB2","U+1CB3","U+1CB4",
                "U+1CB5","U+1CB6","U+1CB7","U+1CB8","U+1CB9","U+1CBA",
                "U+1CBD","U+1CBE","U+1CBF","U+13F0","U+13F1","U+13F2",
                "U+13F3","U+13F4","U+13F5","U+0412","U+0414","U+041E",
                "U+0421","U+0422","U+0422","U+042A","U+0462","U+A64A",
                "U+A77D","U+2C63","U+A7C6","U+1E00","U+1E02","U+1E04",
                "U+1E06","U+1E08","U+1E0A","U+1E0C","U+1E0E","U+1E10",
                "U+1E12","U+1E14","U+1E16","U+1E18","U+1E1A","U+1E1C",
                "U+1E1E","U+1E20","U+1E22","U+1E24","U+1E26","U+1E28",
                "U+1E2A","U+1E2C","U+1E2E","U+1E30","U+1E32","U+1E34",
                "U+1E36","U+1E38","U+1E3A","U+1E3C","U+1E3E","U+1E40",
                "U+1E42","U+1E44","U+1E46","U+1E48","U+1E4A","U+1E4C",
                "U+1E4E","U+1E50","U+1E52","U+1E54","U+1E56","U+1E58",
                "U+1E5A","U+1E5C","U+1E5E","U+1E60","U+1E62","U+1E64",
                "U+1E66","U+1E68","U+1E6A","U+1E6C","U+1E6E","U+1E70",
                "U+1E72","U+1E74","U+1E76","U+1E78","U+1E7A","U+1E7C",
                "U+1E7E","U+1E80","U+1E82","U+1E84","U+1E86","U+1E88",
                "U+1E8A","U+1E8C","U+1E8E","U+1E90","U+1E92","U+1E94",
                "U+1E60","U+1EA0","U+1EA2","U+1EA4","U+1EA6","U+1EA8",
                "U+1EAA","U+1EAC","U+1EAE","U+1EB0","U+1EB2","U+1EB4",
                "U+1EB6","U+1EB8","U+1EBA","U+1EBC","U+1EBE","U+1EC0",
                "U+1EC2","U+1EC4","U+1EC6","U+1EC8","U+1ECA","U+1ECC",
                "U+1ECE","U+1ED0","U+1ED2","U+1ED4","U+1ED6","U+1ED8",
                "U+1EDA","U+1EDC","U+1EDE","U+1EE0","U+1EE2","U+1EE4",
                "U+1EE6","U+1EE8","U+1EEA","U+1EEC","U+1EEE","U+1EF0",
                "U+1EF2","U+1EF4","U+1EF6","U+1EF8","U+1EFA","U+1EFC",
                "U+1EFE","U+1F08","U+1F09","U+1F0A","U+1F0B","U+1F0C",
                "U+1F0D","U+1F0E","U+1F0F","U+1F18","U+1F19","U+1F1A",
                "U+1F1B","U+1F1C","U+1F1D","U+1F28","U+1F29","U+1F2A",
                "U+1F2B","U+1F2C","U+1F2D","U+1F2E","U+1F2F","U+1F38",
                "U+1F39","U+1F3A","U+1F3B","U+1F3C","U+1F3D","U+1F3E",
                "U+1F3F","U+1F48","U+1F49","U+1F4A","U+1F4B","U+1F4C",
                "U+1F4D","U+1F59","U+1F5B","U+1F5D","U+1F5F","U+1F68",
                "U+1F69","U+1F6A","U+1F6B","U+1F6C","U+1F6D","U+1F6E",
                "U+1F6F","U+1FBA","U+1FBB","U+1FC8","U+1FC9","U+1FCA",
                "U+1FCB","U+1FDA","U+1FDB","U+1FF8","U+1FF9","U+1FEA",
                "U+1FEB","U+1FFA","U+1FFB","U+1F88","U+1F89","U+1F8A",
                "U+1F8B","U+1F8C","U+1F8D","U+1F8E","U+1F8F","U+1F98",
                "U+1F99","U+1F9A","U+1F9B","U+1F9C","U+1F9D","U+1F9E",
                "U+1F9F","U+1FA8","U+1FA9","U+1FAA","U+1FAB","U+1FAC",
                "U+1FAD","U+1FAE","U+1FAF","U+1FB8","U+1FB9","U+1FBC",
                "U+0399","U+1FCC","U+1FD8","U+1FD9","U+1FE8","U+1FE9",
                "U+1FEC","U+1FFC","U+2132","U+2160","U+2161","U+2162",
                "U+2163","U+2164","U+2165","U+2166","U+2167","U+2168",
                "U+2169","U+216A","U+216B","U+216C","U+216D","U+216E",
                "U+216F","U+2183","U+24B6","U+24B7","U+24B8","U+24B9",
                "U+24BA","U+24BB","U+24BC","U+24BD","U+24BE","U+24BF",
                "U+24C0","U+24C1","U+24C2","U+24C3","U+24C4","U+24C5",
                "U+24C6","U+24C7","U+24C8","U+24C9","U+24CA","U+24CB",
                "U+24CC","U+24CD","U+24CE","U+24CF","U+2C00","U+2C01",
                "U+2C02","U+2C03","U+2C04","U+2C05","U+2C06","U+2C07",
                "U+2C08","U+2C09","U+2C0A","U+2C0B","U+2C0C","U+2C0D",
                "U+2C0E","U+2C0F","U+2C10","U+2C11","U+2C12","U+2C13",
                "U+2C14","U+2C15","U+2C16","U+2C17","U+2C18","U+2C19",
                "U+2C1A","U+2C1B","U+2C1C","U+2C1D","U+2C1E","U+2C1F",
                "U+2C20","U+2C21","U+2C22","U+2C23","U+2C24","U+2C25",
                "U+2C26","U+2C27","U+2C28","U+2C29","U+2C2A","U+2C2B",
                "U+2C2C","U+2C2D","U+2C2E","U+2C60","U+023A","U+023E",
                "U+2C67","U+2C69","U+2C6B","U+2C72","U+2C75","U+2C80",
                "U+2C82","U+2C84","U+2C86","U+2C88","U+2C8A","U+2C8C",
                "U+2C8E","U+2C90","U+2C92","U+2C94","U+2C96","U+2C98",
                "U+2C9A","U+2C9C","U+2C9E","U+2CA0","U+2CA2","U+2CA4",
                "U+2CA6","U+2CA8","U+2CAA","U+2CAC","U+2CAE","U+2CB0",
                "U+2CB2","U+2CB4","U+2CB6","U+2CB8","U+2CBA","U+2CBC",
                "U+2CBE","U+2CC0","U+2CC2","U+2CC4","U+2CC6","U+2CC8",
                "U+2CCA","U+2CCC","U+2CCE","U+2CD0","U+2CD2","U+2CD4",
                "U+2CD6","U+2CD8","U+2CDA","U+2CDC","U+2CDE","U+2CE0",
                "U+2CE2","U+2CEB","U+2CED","U+2CF2","U+10A0","U+10A1",
                "U+10A2","U+10A3","U+10A4","U+10A5","U+10A6","U+10A7",
                "U+10A8","U+10A9","U+10AA","U+10AB","U+10AC","U+10AD",
                "U+10AE","U+10AF","U+10B0","U+10B1","U+10B2","U+10B3",
                "U+10B4","U+10B5","U+10B6","U+10B7","U+10B8","U+10B9",
                "U+10BA","U+10BB","U+10BC","U+10BD","U+10BE","U+10BF",
                "U+10C0","U+10C1","U+10C2","U+10C3","U+10C4","U+10C5",
                "U+10C7","U+10CD","U+A640","U+A642","U+A644","U+A646",
                "U+A648","U+A64A","U+A64C","U+A64E","U+A650","U+A652",
                "U+A654","U+A656","U+A658","U+A65A","U+A65C","U+A65E",
                "U+A660","U+A662","U+A664","U+A666","U+A668","U+A66A",
                "U+A66C","U+A680","U+A682","U+A684","U+A686","U+A688",
                "U+A68A","U+A68C","U+A68E","U+A690","U+A692","U+A694",
                "U+A696","U+A698","U+A69A","U+A722","U+A724","U+A726",
                "U+A728","U+A72A","U+A72C","U+A72E","U+A732","U+A734",
                "U+A736","U+A738","U+A73A","U+A73C","U+A73E","U+A740",
                "U+A742","U+A744","U+A746","U+A748","U+A74A","U+A74C",
                "U+A74E","U+A750","U+A752","U+A754","U+A756","U+A758",
                "U+A75A","U+A75C","U+A75E","U+A760","U+A762","U+A764",
                "U+A766","U+A768","U+A76A","U+A76C","U+A76E","U+A779",
                "U+A77B","U+A77E","U+A780","U+A782","U+A784","U+A786",
                "U+A78B","U+A790","U+A792","U+A7C4","U+A796","U+A798",
                "U+A79A","U+A79C","U+A79E","U+A7A0","U+A7A2","U+A7A4",
                "U+A7A6","U+A7A8","U+A7B4","U+A7B6","U+A7B8","U+A7BA",
                "U+A7BC","U+A7BE","U+A7C2","U+A7C7","U+A7C9","U+A7F5",
                "U+A7B3","U+13A0","U+13A1","U+13A2","U+13A3","U+13A4",
                "U+13A5","U+13A6","U+13A7","U+13A8","U+13A9","U+13AA",
                "U+13AB","U+13AC","U+13AD","U+13AE","U+13AF","U+13B0",
                "U+13B1","U+13B2","U+13B3","U+13B4","U+13B5","U+13B6",
                "U+13B7","U+13B8","U+13B9","U+13BA","U+13BB","U+13BC",
                "U+13BD","U+13BE","U+13BF","U+13C0","U+13C1","U+13C2",
                "U+13C3","U+13C4","U+13C5","U+13C6","U+13C7","U+13C8",
                "U+13C9","U+13CA","U+13CB","U+13CC","U+13CD","U+13CE",
                "U+13CF","U+13D0","U+13D1","U+13D2","U+13D3","U+13D4",
                "U+13D5","U+13D6","U+13D7","U+13D8","U+13D9","U+13DA",
                "U+13DB","U+13DC","U+13DD","U+13DE","U+13DF","U+13E0",
                "U+13E1","U+13E2","U+13E3","U+13E4","U+13E5","U+13E6",
                "U+13E7","U+13E8","U+13E9","U+13EA","U+13EB","U+13EC",
                "U+13ED","U+13EE","U+13EF","U+FF21","U+FF22","U+FF23",
                "U+FF24","U+FF25","U+FF26","U+FF27","U+FF28","U+FF29",
                "U+FF2A","U+FF2B","U+FF2C","U+FF2D","U+FF2E","U+FF2F",
                "U+FF30","U+FF31","U+FF32","U+FF33","U+FF34","U+FF35",
                "U+FF36","U+FF37","U+FF38","U+FF39","U+FF3A","U+10400",
                "U+10401","U+10402","U+10403","U+10404","U+10405","U+10406",
                "U+10407","U+10408","U+10409","U+1040A","U+1040B","U+1040C",
                "U+1040D","U+1040E","U+1040F","U+10410","U+10411","U+10412",
                "U+10413","U+10414","U+10415","U+10416","U+10417","U+10418",
                "U+10419","U+1041A","U+1041B","U+1041C","U+1041D","U+1041E",
                "U+1041F","U+10420","U+10421","U+10422","U+10423","U+10424",
                "U+10425","U+10426","U+10427","U+104B0","U+104B1","U+104B2",
                "U+104B3","U+104B4","U+104B5","U+104B6","U+104B7","U+104B8",
                "U+104B9","U+104BA","U+104BB","U+104BC","U+104BD","U+104BE",
                "U+104BF","U+104C0","U+104C1","U+104C2","U+104C3","U+104C4",
                "U+104C5","U+104C6","U+104C7","U+104C8","U+104C9","U+104CA",
                "U+104CB","U+104CC","U+104CD","U+104CE","U+104CF","U+104D0",
                "U+104D1","U+104D2","U+104D3","U+10C80","U+10C81","U+10C82",
                "U+10C83","U+10C84","U+10C85","U+10C86","U+10C87","U+10C88",
                "U+10C89","U+10C8A","U+10C8B","U+10C8C","U+10C8D","U+10C8E",
                "U+10C8F","U+10C90","U+10C91","U+10C92","U+10C93","U+10C94",
                "U+10C95","U+10C96","U+10C97","U+10C98","U+10C99","U+10C9A",
                "U+10C9B","U+10C9C","U+10C9D","U+10C9E","U+10C9F","U+10CA0",
                "U+10CA1","U+10CA2","U+10CA3","U+10CA4","U+10CA5","U+10CA6",
                "U+10CA7","U+10CA8","U+10CA9","U+10CAA","U+10CAB","U+10CAC",
                "U+10CAD","U+10CAE","U+10CAF","U+10CB0","U+10CB1","U+10CB2",
                "U+118A0","U+118A1","U+118A2","U+118A3","U+118A4","U+118A5",
                "U+118A6","U+118A7","U+118A8","U+118A9","U+118AA","U+118AB",
                "U+118AC","U+118AD","U+118AE","U+118AF","U+118B0","U+118B1",
                "U+118B2","U+118B3","U+118B4","U+118B5","U+118B6","U+118B7",
                "U+118B8","U+118B9","U+118BA","U+118BB","U+118BC","U+118BD",
                "U+118BE","U+118BF","U+16E40","U+16E41","U+16E42","U+16E43",
                "U+16E44","U+16E45","U+16E46","U+16E47","U+16E48","U+16E49",
                "U+16E4A","U+16E4B","U+16E4C","U+16E4D","U+16E4E","U+16E4F",
                "U+16E50","U+16E51","U+16E52","U+16E53","U+16E54","U+16E55",
                "U+16E56","U+16E57","U+16E58","U+16E59","U+16E5A","U+16E5B",
                "U+16E5C","U+16E5D","U+16E5E","U+16E5F","U+1E900","U+1E901",
                "U+1E902","U+1E903","U+1E904","U+1E905","U+1E906","U+1E907",
                "U+1E908","U+1E909","U+1E90A","U+1E90B","U+1E90C","U+1E90D",
                "U+1E90E","U+1E90F","U+1E910","U+1E911","U+1E912","U+1E913",
                "U+1E914","U+1E915","U+1E916","U+1E917","U+1E918","U+1E919",
                "U+1E91A","U+1E91B","U+1E91C","U+1E91D","U+1E91E","U+1E91F",
                "U+1E920","U+1E921">>

\* unicode.ToUpper outside ASCII, as a table
UpperOfRune ==
  [c \in {LowerRunes[i] : i \in 1..Len(LowerRunes)} |->
     UpperRunes[CHOOSE i \in 1..Len(LowerRunes) : LowerRunes[i] = c]]

\* unicode.ToUpper on one rune
ToUpperChar(c) ==
  IF \E i \in 1..26 : LowerLetters[i] = c
  THEN UpperLetters[CHOOSE i \in 1..26 : LowerLetters[i] = c]
  ELSE IF c \in DOMAIN UpperOfRune THEN UpperOfRune[c] ELSE c

\* strings.ToUpper
ToUpper(s) == [i \in 1..Len(s) |-> ToUpperChar(s[i])]

\* strings.HasPrefix(s, "/")
HasSlashPrefix(s) == Len(s) >= 1 /\ s[1] = "/"

\* unicode.IsSpace, which strings.TrimSpace applies to each rune
IsSpace(c) ==
  c \in {" ", "\t", "\n", "\r", "\f", "U+000B", "U+0085", "U+00A0", "U+1680",
         "U+2000", "U+2001", "U+2002", "U+2003", "U+2004", "U+2005", "U+2006",
         "U+2007", "U+2008", "U+2009", "U+200A", "U+2028", "U+2029", "U+202F",
         "U+205F", "U+3000"}

RECURSIVE TrimLeft(_)
TrimLeft(s) == IF s # <<>> /\ IsSpace(Head(s)) THEN TrimLeft(Tail(s)) ELSE s

RECURSIVE TrimRight(_)
TrimRight(s) ==
  IF s # <<>> /\ IsSpace(s[Len(s)]) THEN TrimRight(SubSeq(s, 1, Len(s) - 1)) ELSE s

\* strings.TrimSpace
TrimSpace(s) == TrimRight(TrimLeft(s))

\* --------------------------------------------------------------- constants
\* constants.HTTP, constants.WS, constants.WEBHOOK, constants.InlineEndpointType,
\* constants.AlreadyExists
HTTP == <<"H","T","T","P">>
WS == <<"W","S">>
WEBHOOK == <<"W","E","B","H","O","O","K">>
InlineEndpointType == "INLINE"
AlreadyExists == <<"ALREADY_EXISTS">>

\* config.DefaultGatewayName and the vhost config.GetDefaultVhost gives for it
DefaultGatewayName == "Default"
DefaultVhost == "localhost"
\* config.GetControlPlaneConnectedTenantDomain()
TenantDomain == "carbon.super"

\* ------------------------------------------------------------ the manifest
\* EndpointInfo decoded from one raw endpoint object (url -> Endpoint)
EndpointInfoOf(obj) == [Endpoint |-> obj.url]

\* PopulateEndpointsInfo taking the elements of an array from the last to the first
PopulateSide_ReversesArray(raw, list) ==
  IF raw.shape = "object" THEN <<EndpointInfoOf(raw.eps[1])>>
  ELSE IF raw.shape = "array"
       THEN [i \in 1..Len(raw.eps) |-> EndpointInfoOf(raw.eps[Len(raw.eps) + 1 - i])]
       ELSE list

\* One side (production or sandbox) of PopulateEndpointsInfo: the raw field
\* is nil, a JSON object, a JSON array of objects, or something else.  list is
\* the endpoint list as json.Unmarshal left it (the field has no json tag, so
\* a key of the name of the field fills it); an object or an array replaces
\* it, nil or another shape leaves it.
PopulateSide(raw, list) ==
  IF raw.shape = "object" THEN <<EndpointInfoOf(raw.eps[1])>>
  ELSE IF raw.shape = "array"
       THEN [i \in 1..Len(raw.eps) |-> EndpointInfoOf(raw.eps[i])]
       ELSE list

\* APIYaml.PopulateEndpointsInfo
PopulateEndpointsInfo(y) ==
  [y EXCEPT !.ProductionEndpoints = PopulateSide(y.RawProdEndpoints, y.ProductionEndpoints),
            !.SandBoxEndpoints = PopulateSide(y.RawSandboxEndpoints, y.SandBoxEndpoints)]

\* FormatAndUpdateInfo leaving the type as the manifest spells it
FormatAndUpdateInfo_KeepsType(y) ==
  [y EXCEPT !.LifeCycleStatus = ToUpper(y.LifeCycleStatus),
            !.OrganizationID =
               IF y.OrganizationID = "" THEN TenantDomain ELSE y.OrganizationID]

\* APIYaml.FormatAndUpdateInfo
FormatAndUpdateInfo(y) ==
  [y EXCEPT !.APIType = ToUpper(y.APIType),
            !.LifeCycleStatus = ToUpper(y.LifeCycleStatus),
            !.OrganizationID =
               IF y.OrganizationID = "" THEN TenantDomain ELSE y.OrganizationID]

\* the test both endpoint loops of ValidateMandatoryFields apply to a URL
RelativeOrEmpty(url) == HasSlashPrefix(url) \/ Len(TrimSpace(url)) < 1

\* ValidateMandatoryFields asking for a production endpoint
ValidateMandatoryFields_NeedsProduction(y) ==
  LET apiName == IF y.Name = "" THEN "unknownAPIName" ELSE y.Name
      apiVersion == IF y.Version = "" THEN "unknownAPIVersion" ELSE y.Version
      m1 == IF y.Name = "" THEN <<"API Name ">> ELSE <<>>
      m2 == IF y.Version = "" THEN m1 \o <<"API Version ">> ELSE m1
      m3 == IF y.Context = "" THEN m2 \o <<"API Context ">> ELSE m2
      m4 == IF Len(y.ProductionEndpoints) < 1
            THEN m3 \o <<"API production and sandbox endpoints ">> ELSE m3
  IN  IF m4 # <<>>
      THEN m4 \o <<"fields cannot be empty for ", apiName, " ", apiVersion>>
      ELSE IF \E i \in 1..Len(y.ProductionEndpoints) :
                 RelativeOrEmpty(y.ProductionEndpoints[i].Endpoint)
      THEN <<"relative urls or empty values are not supported for API production endpoints">>
      ELSE IF \E i \in 1..Len(y.SandBoxEndpoints) :
                 RelativeOrEmpty(y.SandBoxEndpoints[i].Endpoint)
      THEN <<"relative urls or empty values are not supported for API sandbox endpoints">>
      ELSE <<>>

\* ValidateMandatoryFields without its loop over the sandbox endpoints
ValidateMandatoryFields_ProductionOnly(y) ==
  LET apiName == IF y.Name = "" THEN "unknownAPIName" ELSE y.Name
      apiVersion == IF y.Version = "" THEN "unknownAPIVersion" ELSE y.Version
      m1 == IF y.Name = "" THEN <<"API Name ">> ELSE <<>>
      m2 == IF y.Version = "" THEN m1 \o <<"API Version ">> ELSE m1
      m3 == IF y.Context = "" THEN m2 \o <<"API Context ">> ELSE m2
      m4 == IF Len(y.ProductionEndpoints) < 1 /\ Len(y.SandBoxEndpoints) < 1
            THEN m3 \o <<"API production and sandbox endpoints ">> ELSE m3
  IN  IF m4 # <<>>
      THEN m4 \o <<"fields cannot be empty for ", apiName, " ", apiVersion>>
      ELSE IF \E i \in 1..Len(y.ProductionEndpoints) :
                 RelativeOrEmpty(y.ProductionEndpoints[i].Endpoint)
      THEN <<"relative urls or empty values are not supported for API production endpoints">>
      ELSE <<>>

\* APIYaml.ValidateMandatoryFields: the error it returns
ValidateMandatoryFields(y) ==
  LET apiName == IF y.Name = "" THEN "unknownAPIName" ELSE y.Name
      apiVersion == IF y.Version = "" THEN "unknownAPIVersion" ELSE y.Version
      m1 == IF y.Name = "" THEN <<"API Name ">> ELSE <<>>
      m2 == IF y.Version = "" THEN m1 \o <<"API Version ">> ELSE m1
      m3 == IF y.Context = "" THEN m2 \o <<"API Context ">> ELSE m2
      m4 == IF Len(y.ProductionEndpoints) < 1 /\ Len(y.SandBoxEndpoints) < 1
            THEN m3 \o <<"API production and sandbox endpoints ">> ELSE m3
  IN  IF m4 # <<>>
      THEN m4 \o <<"fields cannot be empty for ", apiName, " ", apiVersion>>
      ELSE IF \E i \in 1..Len(y.ProductionEndpoints) :
                 RelativeOrEmpty(y.ProductionEndpoints[i].Endpoint)
      THEN <<"relative urls or empty values are not supported for API production endpoints">>
      ELSE IF \E i \in 1..Len(y.SandBoxEndpoints) :
                 RelativeOrEmpty(y.SandBoxEndpoints[i].Endpoint)
      THEN <<"relative urls or empty values are not supported for API sandbox endpoints">>
      ELSE <<>>

\* ValidateAPIType accepting every type
ValidateAPIType_AcceptAll(y) == <<>>

\* APIYaml.ValidateAPIType: the error it returns
ValidateAPIType(y) ==
  IF y.APIType = <<>> THEN <<"could not find api.yaml or api.json">>
  ELSE IF y.APIType # HTTP /\ y.APIType # WS /\ y.APIType # WEBHOOK
       THEN <<"API type is not currently supported with Choreo Connect">>
       ELSE <<>>

\* the zero value of APIYaml (a project into which no manifest was read)
ZeroAPIYaml ==
  [ID |-> "", Name |-> "", Context |-> "", Version |-> "", RevisionID |-> 0,
   APIType |-> <<>>, LifeCycleStatus |-> <<>>, EndpointImplementationType |-> "",
   OrganizationID |-> "",
   RawProdEndpoints |-> [shape |-> "nil", eps |-> <<>>],
   RawSandboxEndpoints |-> [shape |-> "nil", eps |-> <<>>],
   ProductionEndpoints |-> <<>>, SandBoxEndpoints |-> <<>>]

\* NewAPIYaml: file.decodable is whether utills.ToJSON and json.Unmarshal accept
\* the file; file.doc is the APIYaml as decoding left it: the decoded document,
\* the zero value when utills.ToJSON fails, and what json.Unmarshal decoded
\* beside the field it reports when it fails (returned as it is by line 458).
\* Gives [y, err].
NewAPIYaml(file) ==
  IF ~file.decodable
  THEN [y |-> file.doc, err |-> <<"cannot decode api.yaml or api.json">>]
  ELSE LET y == PopulateEndpointsInfo(FormatAndUpdateInfo(file.doc))
           e == ValidateMandatoryFields(y)
       IN  IF e # <<>> THEN [y |-> y, err |-> e]
           ELSE IF y.EndpointImplementationType = InlineEndpointType
           THEN [y |-> y,
                 err |-> <<"inline endpointImplementationType is not currently supported with Choreo Connect">>]
           ELSE [y |-> y, err |-> <<>>]

\* ------------------------------------------------------------- the project
\* The fields of model.ProjectAPI the orchestrator reads.
NewProject(y, depsNil, deps) ==
  [APIYaml |-> y, DeploymentsNil |-> depsNil, Deployments |-> deps]

\* processFileInsideProject over all entries of a project: the manifest entry
\* goes to NewAPIYaml, deployment_environments.yaml gives the deployment list,
\* other entries do not change what the orchestrator reads.  Gives [proj, err].
processFiles(content) ==
  LET r == IF content.hasApi THEN NewAPIYaml(content.api)
           ELSE [y |-> ZeroAPIYaml, err |-> <<>>]
  IN  [proj |-> NewProject(r.y, ~content.hasDeployments,
                           IF content.hasDeployments THEN content.deployments ELSE <<>>),
       err |-> r.err]

\* extractAPIProject going on after a file of the project failed
extractAPIProject_IgnoreFileError(payload) ==
  IF payload.corrupt
  THEN [proj |-> NewProject(ZeroAPIYaml, TRUE, <<>>), err |-> <<"zip: not a valid zip file">>]
  ELSE LET r == processFiles(payload)
       IN  [proj |-> r.proj, err |-> ValidateAPIType(r.proj.APIYaml)]

\* extractAPIProject: payload.corrupt is whether zip.NewReader (or reading an
\* entry) fails.  Gives [proj, err].
extractAPIProject(payload) ==
  IF payload.corrupt
  THEN [proj |-> NewProject(ZeroAPIYaml, TRUE, <<>>), err |-> <<"zip: not a valid zip file">>]
  ELSE LET r == processFiles(payload)
       IN  IF r.err # <<>> THEN r
           ELSE [proj |-> r.proj, err |-> ValidateAPIType(r.proj.APIYaml)]

\* The directory branch of ProcessMountedAPIProjects up to validateAndUpdateXds:
\* filepath.Walk over the files (content.corrupt: a file cannot be read), then
\* ValidateAPIType.  Gives [proj, err].
walkAPIProject(content) ==
  IF content.corrupt
  THEN [proj |-> NewProject(ZeroAPIYaml, TRUE, <<>>), err |-> <<"read error">>]
  ELSE LET r == processFiles(content)
       IN  IF r.err # <<>> THEN r
           ELSE [proj |-> r.proj, err |-> ValidateAPIType(r.proj.APIYaml)]

\* fmt.Errorf("%v:%v with UUID \"%v\"", name, version, id)
CanonicalError(y) == <<y.Name, ":", y.Version, " with UUID \"", y.ID, "\"">>

\* an error returned by the xds package itself
XdsError == <<"xds error">>

\* ------------------------------------------------ the deployment index (xds)
\* envIndex:   <<apiId, environment>> -> vhost
\* vhostIndex: <<vhost, organizationId, apiId, version>> -> [revisionId, envs]
Range(s) == {s[i] : i \in 1..Len(s)}
Put(f, k, v) == [x \in (DOMAIN f) \cup {k} |-> IF x = k THEN v ELSE f[x]]
Drop(f, K) == [x \in (DOMAIN f) \ K |-> f[x]]
EmptyMap == [x \in {} |-> x]

IsAPIExist(vi, vhost, id, name, version, org) ==
  <<vhost, org, id, version>> \in DOMAIN vi

GetVhostOfAPI(ei, id, env) ==
  IF <<id, env>> \in DOMAIN ei
  THEN [vhost |-> ei[<<id, env>>], exists |-> TRUE]
  ELSE [vhost |-> "", exists |-> FALSE]

\* the requested environments and those in which the API is deployed under vhost
GetAllEnvironments(vi, id, vhost, requested) ==
  requested \cup
  UNION {vi[k].envs : k \in {x \in DOMAIN vi : x[1] = vhost /\ x[3] = id}}

UpdateEnvIndex(ei, vhost, id, envs) ==
  [k \in (DOMAIN ei) \cup {<<id, e>> : e \in envs} |->
     IF k[1] = id /\ k[2] \in envs THEN vhost ELSE ei[k]]

UpdateVhostIndex(vi, vhost, y, envs) ==
  Put(vi, <<vhost, y.OrganizationID, y.ID, y.Version>>,
      [revisionId |-> y.RevisionID, envs |-> envs])

DeployedRevision(vhost, y, envs) ==
  [vhost |-> vhost, environments |-> envs, revisionId |-> y.RevisionID,
   organizationId |-> y.OrganizationID, apiId |-> y.ID]

\* the nil *DeployedAPIRevision
NilRevision ==
  [vhost |-> "nil", environments |-> {}, revisionId |-> 0,
   organizationId |-> "nil", apiId |-> "nil"]

\* Lines 263-265: a revision that is not nil joins deployedRevisionList
AppendRevision(deployedRevisionList, deployedRevision) ==
  IF deployedRevision # NilRevision
  THEN Append(deployedRevisionList, deployedRevision)
  ELSE deployedRevisionList

DeleteFromEnvIndex(ei, vhost, id, envs) ==
  IF vhost = "" THEN ei
  ELSE Drop(ei, {k \in DOMAIN ei : k[1] = id /\ k[2] \in envs /\ ei[k] = vhost})

DeleteFromVhostIndex(vi, vhost, id, envs, org) ==
  IF vhost = "" THEN vi
  ELSE LET hit == {k \in DOMAIN vi : k[1] = vhost /\ k[2] = org /\ k[3] = id}
           gone == {k \in hit : vi[k].envs \ envs = {}}
       IN  [k \in (DOMAIN vi) \ gone |->
              IF k \in hit THEN [vi[k] EXCEPT !.envs = @ \ envs] ELSE vi[k]]

\* ------------------------------------------------------------------ inputs
APIIds == {"A"}
Environments == {DefaultGatewayName, "e2"}
Vhosts == {DefaultVhost, "v2"}
Workers == {"w1", "w2"}

GoodUrl == <<"h","t","t","p","s",":","/","/","h","/","1">>
RelativeUrl == <<"/","i","n","t","e","r","n","a","l","/","x">>
BlankUrl == <<" ">>

RawNil == [shape |-> "nil", eps |-> <<>>]
RawObject(url) == [shape |-> "object", eps |-> <<[url |-> url]>>]
RawArray(urls) == [shape |-> "array", eps |-> [i \in 1..Len(urls) |-> [url |-> urls[i]]]]
RawOther == [shape |-> "other", eps |-> <<>>]

\* a manifest document that passes every check
BaseDoc(id, rev) ==
  [ZeroAPIYaml EXCEPT !.ID = id, !.Name = "X", !.Version = "1", !.Context = "/c",
                      !.RevisionID = rev, !.APIType = <<"h","t","t","p">>,
                      !.RawProdEndpoints = RawObject(GoodUrl)]

ValidDocs == {BaseDoc(id, rev) : id \in APIIds, rev \in 1..MaxRevision}

\* manifests that fail one check each, and one that fails two
InvalidDocs ==
  LET b == BaseDoc("A", 1)
  IN  { [b EXCEPT !.APIType = <<"s","o","a","p">>],
        [b EXCEPT !.APIType = <<>>],
        [b EXCEPT !.Name = ""],
        [b EXCEPT !.RawProdEndpoints = RawArray(<<RelativeUrl>>)],
        [b EXCEPT !.RawSandboxEndpoints = RawArray(<<GoodUrl, BlankUrl>>)],
        [b EXCEPT !.RawProdEndpoints = RawArray(<<>>), !.RawSandboxEndpoints = RawArray(<<>>)],
        [b EXCEPT !.RawProdEndpoints = RawOther],
        [b EXCEPT !.EndpointImplementationType = InlineEndpointType],
        [b EXCEPT !.APIType = <<"s","o","a","p">>, !.RawProdEndpoints = RawObject(<<>>)] }

Deployment(env, vhost) ==
  [DeploymentEnvironment |-> env, DeploymentVhost |-> vhost, DisplayOnDevportal |-> TRUE]

\* deployment lists: empty, one deployment, or one per environment
DeploymentLists(VH) ==
  {<<>>} \cup {<<Deployment(e, v)>> : e \in Environments, v \in VH}
         \cup {<<Deployment(DefaultGatewayName, v1), Deployment("e2", v2)>> : v1 \in VH, v2 \in VH}

Content(corrupt, hasApi, decodable, doc, hasDeps, deps) ==
  [corrupt |-> corrupt, hasApi |-> hasApi,
   api |-> [decodable |-> decodable, doc |-> doc],
   hasDeployments |-> hasDeps, deployments |-> deps]

BrokenContents ==
  { Content(TRUE, FALSE, FALSE, ZeroAPIYaml, FALSE, <<>>),
    Content(FALSE, FALSE, FALSE, ZeroAPIYaml, FALSE, <<>>),
    Content(FALSE, TRUE, FALSE, ZeroAPIYaml, FALSE, <<>>) }
  \cup {Content(FALSE, TRUE, TRUE, d, FALSE, <<>>) : d \in InvalidDocs}

\* projects without a deployment list (what the management plane sends)
PlainContents ==
  BrokenContents \cup {Content(FALSE, TRUE, TRUE, d, FALSE, <<>>) : d \in ValidDocs}

\* projects as the standalone entry points receive them
DeployableContents(VH) ==
  PlainContents
  \cup {Content(FALSE, TRUE, TRUE, d, TRUE, l) : d \in ValidDocs, l \in DeploymentLists(VH)}
  \cup {Content(FALSE, TRUE, TRUE, [BaseDoc("A", 1) EXCEPT !.APIType = <<"s","o","a","p">>],
                TRUE, <<Deployment("e2", "v2")>>)}

\* vhostToEnvsMap: every environment under at most one vhost, lists not empty
EnvList(E) ==
  IF E = Environments THEN <<DefaultGatewayName, "e2">>
  ELSE IF E = {} THEN <<>> ELSE <<CHOOSE e \in E : TRUE>>

VhostToEnvsMaps(VH) ==
  { [v \in {x \in VH : \E e \in Environments : f[e] = x} |->
        EnvList({e \in Environments : f[e] = v})] :
    f \in [Environments -> VH \cup {"-"}] } \ {EmptyMap}

\* ------------------------------------------------------------------- state
VARIABLES envIndex, vhostIndex, calls
vars == <<envIndex, vhostIndex, calls>>

Essentials(y) ==
  [ID |-> y.ID, Name |-> y.Name, Version |-> y.Version,
   OrganizationID |-> y.OrganizationID, RevisionID |-> y.RevisionID]

NoPrev == [kind |-> "none", override |-> FALSE, sameIn |-> FALSE, revs |-> <<>>]

\* what a call of NewAPIYaml was given and gave (nothing, for the other calls):
\* the file, the APIYaml returned, what ValidateMandatoryFields returned inside
\* it, and what ValidateAPIType returns on the APIYaml
NoManifest ==
  [file |-> [decodable |-> FALSE, doc |-> ZeroAPIYaml], y |-> ZeroAPIYaml,
   mandatory |-> <<>>, typeErr |-> <<>>]

IdleCall ==
  [kind |-> "none", pc |-> "idle", outcome |-> "", err |-> <<>>, revs |-> <<>>,
   y |-> Essentials(ZeroAPIYaml), override |-> FALSE, depsNil |-> FALSE, deps |-> <<>>,
   V |-> EmptyMap, todo |-> {}, cur |-> "", i |-> 0, toRemove |-> EmptyMap,
   allEnvs |-> {}, files |-> <<>>, filter |-> <<>>,
   badType |-> FALSE, badUrl |-> FALSE, defect |-> FALSE, pid |-> "",
   recovered |-> FALSE, muts |-> <<>>, readable |-> TRUE, serverEnabled |-> TRUE,
   listed |-> <<>>, query |-> [nil |-> TRUE, s |-> <<>>],
   pre |-> [env |-> EmptyMap, vh |-> EmptyMap], prev |-> NoPrev, arts |-> <<>>,
   manifest |-> NoManifest]

Init ==
  /\ envIndex = EmptyMap
  /\ vhostIndex = EmptyMap
  /\ calls = [w \in Workers |-> IdleCall]

\* no entry-point call of a worker is in progress
AtRest(c) == c.pc \in {"idle", "done"}
Quiet == \A w \in Workers : AtRest(calls[w])

\* ---------------------------------------------------- what the checks read
\* the project carries a type, and its uppercased type is not supported
HasUnsupportedType(content) ==
  /\ ~content.corrupt /\ content.hasApi /\ content.api.decodable
  /\ ToUpper(content.api.doc.APIType) \notin {HTTP, WS, WEBHOOK}

BlankOrRelative(url) ==
  \/ url = <<>>
  \/ url[1] = "/"
  \/ \A i \in 1..Len(url) : IsSpace(url[i])

\* the URLs of the endpoints a manifest gives on one side: those of the raw
\* object or array, else those listed under the name of the field
UrlsOf(raw, list) ==
  IF raw.shape \in {"object", "array"} THEN {raw.eps[i].url : i \in 1..Len(raw.eps)}
  ELSE {list[i].Endpoint : i \in 1..Len(list)}

\* the project has a production or sandbox endpoint with a blank or relative URL
HasBadEndpoint(content) ==
  /\ ~content.corrupt /\ content.hasApi /\ content.api.decodable
  /\ LET d == content.api.doc
     IN  \E u \in UrlsOf(d.RawProdEndpoints, d.ProductionEndpoints)
                  \cup UrlsOf(d.RawSandboxEndpoints, d.SandBoxEndpoints) : BlankOrRelative(u)

\* parsing or validation must reject the project: the archive is corrupt, the
\* manifest is absent or cannot be decoded, a mandatory field is empty, there
\* is no endpoint, or the implementation type is INLINE
IsDefective(content) ==
  \/ content.corrupt \/ ~content.hasApi \/ ~content.api.decodable
  \/ LET d == content.api.doc
     IN  \/ d.Name = "" \/ d.Version = "" \/ d.Context = ""
         \/ /\ UrlsOf(d.RawProdEndpoints, d.ProductionEndpoints) = {}
            /\ UrlsOf(d.RawSandboxEndpoints, d.SandBoxEndpoints) = {}
         \/ d.EndpointImplementationType = "INLINE"

\* the API id the project carries
IdOf(content) ==
  IF ~content.corrupt /\ content.hasApi /\ content.api.decodable
  THEN content.api.doc.ID ELSE ""

\* what the checks note of the project a call (or an artifact) is given
Noted(c, content) ==
  [c EXCEPT !.badType = HasUnsupportedType(content),
            !.badUrl = HasBadEndpoint(content),
            !.defect = IsDefective(content),
            !.pid = IdOf(content)]

\* the summary of the call a worker follows up (NoPrev when it follows none up)
PrevOf(old, y) ==
  IF old.pc = "done"
  THEN [kind |-> old.kind, override |-> old.override,
        sameIn |-> old.y = Essentials(y), revs |-> old.revs]
  ELSE NoPrev

\* a call as it starts
Begin(w, kind, content) ==
  Noted([IdleCall EXCEPT !.kind = kind, !.outcome = "running",
                          !.pre = [env |-> envIndex, vh |-> vhostIndex]],
        content)

\* a call as it returns: the locals are gone, the inputs and results stay
Return(c, err) ==
  [c EXCEPT !.pc = "done", !.outcome = "returned", !.err = err,
            !.todo = {}, !.cur = "", !.i = 0, !.toRemove = EmptyMap, !.allEnvs = {}]

\* ------------------------------------------- ApplyAPIProjectFromAPIM (211-279)
\* Lines 216-237: parse, then the loop over vhostToEnvsMap starts.  apiEnvs only
\* sets apiProject.APIEnvProps, which nothing modelled here reads.
ApplyAPIProjectFromAPIM(w, payload, V) ==
  /\ AtRest(calls[w])
  /\ LET r == extractAPIProject(payload)
         c0 == [Begin(w, "apim", payload) EXCEPT !.V = V]
     IN  calls' = [calls EXCEPT ![w] =
           IF r.err # <<>> THEN Return(c0, r.err)
           ELSE [c0 EXCEPT !.y = Essentials(r.proj.APIYaml), !.todo = DOMAIN V,
                           !.pc = "loop",
                           !.prev = PrevOf(calls[w], r.proj.APIYaml)]]
  /\ UNCHANGED <<envIndex, vhostIndex>>

\* Line 240: range over the map takes the keys in any order; line 269 starts the
\* range over vhostsToRemove once the keys are used up.
APIMLoop(w) ==
  LET c == calls[w] IN
  /\ c.kind = "apim" /\ c.pc = "loop"
  /\ \/ /\ c.todo # {}
        /\ \E vhost \in c.todo :
             calls' = [calls EXCEPT ![w] =
               [c EXCEPT !.cur = vhost, !.todo = @ \ {vhost}, !.i = 1,
                         !.pc = IF Len(c.V[vhost]) = 0 THEN "allenvs" ELSE "scan"]]
     \/ /\ c.todo = {}
        /\ calls' = [calls EXCEPT ![w] =
             [c EXCEPT !.cur = "", !.i = 0, !.allEnvs = {},
                       !.todo = DOMAIN c.toRemove, !.pc = "remove"]]
  /\ UNCHANGED <<envIndex, vhostIndex>>

\* the scan never notes a vhost to remove the API from
MarkForRemoval_Never(toRemove, vhost, env, g) == toRemove

\* Lines 243-251: vhostsToRemove after environment env of vhost was looked up
\* (g is what GetVhostOfAPI gave)
MarkForRemoval(toRemove, vhost, env, g) ==
  LET old == IF g.vhost \in DOMAIN toRemove THEN toRemove[g.vhost] ELSE <<>>
  IN  IF g.exists /\ vhost # g.vhost
      THEN Put(toRemove, g.vhost, Append(old, env)) ELSE toRemove

\* Lines 242-252: one environment of the current vhost
APIMScan(w) ==
  LET c == calls[w]
      env == c.V[c.cur][c.i]
      g == GetVhostOfAPI(envIndex, c.y.ID, env)
  IN
  /\ c.kind = "apim" /\ c.pc = "scan"
  /\ calls' = [calls EXCEPT ![w] =
       [c EXCEPT !.toRemove = MarkForRemoval(c.toRemove, c.cur, env, g),
                 !.i = @ + 1,
                 !.pc = IF c.i + 1 > Len(c.V[c.cur]) THEN "allenvs" ELSE "scan"]]
  /\ UNCHANGED <<envIndex, vhostIndex>>

\* line 255 keeping the requested environments only
APIMAllEnvs_RequestedOnly(w) ==
  LET c == calls[w] IN
  /\ c.kind = "apim" /\ c.pc = "allenvs"
  /\ calls' = [calls EXCEPT ![w] =
       [c EXCEPT !.allEnvs = Range(c.V[c.cur]), !.pc = "update"]]
  /\ UNCHANGED <<envIndex, vhostIndex>>

\* Line 255
APIMAllEnvs(w) ==
  LET c == calls[w] IN
  /\ c.kind = "apim" /\ c.pc = "allenvs"
  /\ calls' = [calls EXCEPT ![w] =
       [c EXCEPT !.allEnvs = GetAllEnvironments(vhostIndex, c.y.ID, c.cur, Range(c.V[c.cur])),
                 !.pc = "update"]]
  /\ UNCHANGED <<envIndex, vhostIndex>>

\* line 261 returning no revision with the error
APIMUpdate_ErrorDropsRevisions(w) ==
  LET c == calls[w] IN
  /\ c.kind = "apim" /\ c.pc = "update"
  /\ \/ /\ envIndex' = UpdateEnvIndex(envIndex, c.cur, c.y.ID, c.allEnvs)
        /\ vhostIndex' = UpdateVhostIndex(vhostIndex, c.cur, c.y, c.allEnvs)
        /\ calls' = [calls EXCEPT ![w] =
             [c EXCEPT !.revs = AppendRevision(@, DeployedRevision(c.cur, c.y, c.allEnvs)),
                       !.muts = Append(@, [op |-> "update", vhost |-> c.cur, envs |-> c.allEnvs]),
                       !.pc = "loop"]]
     \/ /\ calls' = [calls EXCEPT ![w] = Return([c EXCEPT !.revs = <<>>], CanonicalError(c.y))]
        /\ UNCHANGED <<envIndex, vhostIndex>>
     \/ /\ calls' = [calls EXCEPT ![w] = Return([c EXCEPT !.recovered = TRUE], CanonicalError(c.y))]
        /\ UNCHANGED <<envIndex, vhostIndex>>

\* Lines 259-265: xds.UpdateAPI succeeds and gives the revision it emits,
\* returns an error, or panics (the deferred recover of lines 227-232 then
\* sets the error)
APIMUpdate(w) ==
  LET c == calls[w] IN
  /\ c.kind = "apim" /\ c.pc = "update"
  /\ \/ /\ envIndex' = UpdateEnvIndex(envIndex, c.cur, c.y.ID, c.allEnvs)
        /\ vhostIndex' = UpdateVhostIndex(vhostIndex, c.cur, c.y, c.allEnvs)
        /\ calls' = [calls EXCEPT ![w] =
             [c EXCEPT !.revs = AppendRevision(@, DeployedRevision(c.cur, c.y, c.allEnvs)),
                       !.muts = Append(@, [op |-> "update", vhost |-> c.cur, envs |-> c.allEnvs]),
                       !.pc = "loop"]]
     \/ /\ calls' = [calls EXCEPT ![w] = Return(c, CanonicalError(c.y))]
        /\ UNCHANGED <<envIndex, vhostIndex>>
     \/ /\ calls' = [calls EXCEPT ![w] = Return([c EXCEPT !.recovered = TRUE], CanonicalError(c.y))]
        /\ UNCHANGED <<envIndex, vhostIndex>>

\* the removals ending at the entry of the empty vhost
APIMRemove_EmptyVhostEnds(w) ==
  LET c == calls[w] IN
  /\ c.kind = "apim" /\ c.pc = "remove"
  /\ \/ /\ c.todo = {}
        /\ calls' = [calls EXCEPT ![w] = Return(c, <<>>)]
        /\ UNCHANGED <<envIndex, vhostIndex>>
     \/ \E vhost \in c.todo :
          LET envs == Range(c.toRemove[vhost]) IN
          \/ /\ vhost = ""
             /\ calls' = [calls EXCEPT ![w] = Return(c, <<>>)]
             /\ UNCHANGED <<envIndex, vhostIndex>>
          \/ /\ vhost # ""
             /\ envIndex' = DeleteFromEnvIndex(envIndex, vhost, c.y.ID, envs)
             /\ vhostIndex' = DeleteFromVhostIndex(vhostIndex, vhost, c.y.ID, envs, c.y.OrganizationID)
             /\ calls' = [calls EXCEPT ![w] =
                  [c EXCEPT !.todo = @ \ {vhost},
                            !.muts = Append(@, [op |-> "delete", vhost |-> vhost, envs |-> envs])]]
          \/ /\ vhost # ""
             /\ calls' = [calls EXCEPT ![w] = Return(c, XdsError)]
             /\ UNCHANGED <<envIndex, vhostIndex>>
          \/ /\ vhost # ""
             /\ calls' = [calls EXCEPT ![w] =
                  Return([c EXCEPT !.recovered = TRUE], CanonicalError(c.y))]
             /\ UNCHANGED <<envIndex, vhostIndex>>

\* Lines 269-278: one entry of vhostsToRemove, or the return of line 278
APIMRemove(w) ==
  LET c == calls[w] IN
  /\ c.kind = "apim" /\ c.pc = "remove"
  /\ \/ /\ c.todo = {}
        /\ calls' = [calls EXCEPT ![w] = Return(c, <<>>)]
        /\ UNCHANGED <<envIndex, vhostIndex>>
     \/ \E vhost \in c.todo :
          LET envs == Range(c.toRemove[vhost]) IN
          \/ /\ vhost = ""
             /\ calls' = [calls EXCEPT ![w] = [c EXCEPT !.todo = @ \ {vhost}]]
             /\ UNCHANGED <<envIndex, vhostIndex>>
          \/ /\ vhost # ""
             /\ envIndex' = DeleteFromEnvIndex(envIndex, vhost, c.y.ID, envs)
             /\ vhostIndex' = DeleteFromVhostIndex(vhostIndex, vhost, c.y.ID, envs, c.y.OrganizationID)
             /\ calls' = [calls EXCEPT ![w] =
                  [c EXCEPT !.todo = @ \ {vhost},
                            !.muts = Append(@, [op |-> "delete", vhost |-> vhost, envs |-> envs])]]
          \/ /\ vhost # ""
             /\ calls' = [calls EXCEPT ![w] = Return(c, XdsError)]
             /\ UNCHANGED <<envIndex, vhostIndex>>
          \/ /\ vhost # ""
             /\ calls' = [calls EXCEPT ![w] =
                  Return([c EXCEPT !.recovered = TRUE], CanonicalError(c.y))]
             /\ UNCHANGED <<envIndex, vhostIndex>>

\* ---------------------------------------------- validateAndUpdateXds (147-207)
\* lines 193-197: vhostToEnvsMap of a deployment list
EnvsOfVhost(deps, vhost) ==
  LET F[n \in 0..Len(deps)] ==
        IF n = 0 THEN <<>>
        ELSE IF deps[n].DeploymentVhost = vhost
             THEN Append(F[n - 1], deps[n].DeploymentEnvironment) ELSE F[n - 1]
  IN  F[Len(deps)]

VhostToEnvsMapOf(deps) ==
  [v \in {deps[n].DeploymentVhost : n \in 1..Len(deps)} |-> EnvsOfVhost(deps, v)]

\* Enter without the default deployment of lines 167-175
Enter_NoDefault(c, proj, overrideValue) ==
  LET deps == proj.Deployments
      V == VhostToEnvsMapOf(deps)
  IN  [c EXCEPT !.y = Essentials(proj.APIYaml), !.override = overrideValue,
                !.depsNil = proj.DeploymentsNil, !.deps = deps, !.V = V,
                !.todo = DOMAIN V, !.i = 1,
                !.pc = IF overrideValue \/ deps = <<>> THEN "update_vhosts" ELSE "check"]

\* Enter looking for the API whatever the override value is
Enter_AlwaysChecks(c, proj, overrideValue) ==
  LET deps == IF proj.DeploymentsNil
              THEN <<Deployment(DefaultGatewayName, DefaultVhost)>> ELSE proj.Deployments
      V == VhostToEnvsMapOf(deps)
  IN  [c EXCEPT !.y = Essentials(proj.APIYaml), !.override = overrideValue,
                !.depsNil = proj.DeploymentsNil, !.deps = deps, !.V = V,
                !.todo = DOMAIN V, !.i = 1,
                !.pc = IF deps = <<>> THEN "update_vhosts" ELSE "check"]

\* lines 148-176: the override value and the default deployment
Enter(c, proj, overrideValue) ==
  LET deps == IF proj.DeploymentsNil
              THEN <<Deployment(DefaultGatewayName, DefaultVhost)>> ELSE proj.Deployments
      V == VhostToEnvsMapOf(deps)
  IN  [c EXCEPT !.y = Essentials(proj.APIYaml), !.override = overrideValue,
                !.depsNil = proj.DeploymentsNil, !.deps = deps, !.V = V,
                !.todo = DOMAIN V, !.i = 1,
                !.pc = IF overrideValue \/ deps = <<>> THEN "update_vhosts" ELSE "check"]

\* validateAndUpdateXds returns err: to the caller of the standalone entry point,
\* or to the loop of ProcessMountedAPIProjects, which logs it and goes on
Finish(c, err) ==
  IF c.kind = "bootstrap"
  THEN [c EXCEPT !.pc = "next", !.files = Tail(@),
                 !.arts = Append(@, [badType |-> c.badType, badUrl |-> c.badUrl,
                                     defect |-> c.defect, pid |-> c.pid,
                                     child |-> Head(c.files),
                                     err |-> err, muts |-> c.muts, y |-> c.y,
                                     recovered |-> c.recovered]),
                 !.todo = {}, !.i = 0, !.V = EmptyMap, !.deps = <<>>, !.depsNil = FALSE,
                 !.muts = <<>>, !.badType = FALSE, !.badUrl = FALSE, !.defect = FALSE,
                 !.pid = "", !.recovered = FALSE,
                 !.y = Essentials(ZeroAPIYaml)]
  ELSE Return(c, err)

\* ApplyAPIProjectInStandaloneMode (283-289); override is nil, or points to a bool
ApplyAPIProjectInStandaloneMode(w, payload, override) ==
  /\ LET r == extractAPIProject(payload)
         c0 == Begin(w, "standalone", payload)
         c1 == Enter(c0, r.proj, override = "true")
     IN  /\ AtRest(calls[w])
         /\ calls' = [calls EXCEPT ![w] =
              IF r.err # <<>> THEN Return(c0, r.err)
              ELSE [c1 EXCEPT !.prev = PrevOf(calls[w], r.proj.APIYaml)]]
  /\ UNCHANGED <<envIndex, vhostIndex>>

\* the existence check looking at the first deployment only
CheckExists_FirstOnly(w) ==
  LET c == calls[w]
      d == c.deps[c.i]
  IN
  /\ c.kind \in {"standalone", "bootstrap"} /\ c.pc = "check"
  /\ calls' = [calls EXCEPT ![w] =
       IF IsAPIExist(vhostIndex, d.DeploymentVhost, c.y.ID, c.y.Name, c.y.Version,
                     c.y.OrganizationID)
       THEN Finish(c, AlreadyExists)
       ELSE [c EXCEPT !.i = @ + 1, !.pc = "update_vhosts"]]
  /\ UNCHANGED <<envIndex, vhostIndex>>

\* Lines 177-192: one deployment of the existence check
CheckExists(w) ==
  LET c == calls[w]
      d == c.deps[c.i]
  IN
  /\ c.kind \in {"standalone", "bootstrap"} /\ c.pc = "check"
  /\ calls' = [calls EXCEPT ![w] =
       IF IsAPIExist(vhostIndex, d.DeploymentVhost, c.y.ID, c.y.Name, c.y.Version,
                     c.y.OrganizationID)
       THEN Finish(c, AlreadyExists)
       ELSE [c EXCEPT !.i = @ + 1,
                      !.pc = IF c.i + 1 > Len(c.deps) THEN "update_vhosts" ELSE "check"]]
  /\ UNCHANGED <<envIndex, vhostIndex>>

\* Lines 200-206: one vhost of vhostToEnvsMap, or the return of line 206
UpdateVhosts(w) ==
  LET c == calls[w] IN
  /\ c.kind \in {"standalone", "bootstrap"} /\ c.pc = "update_vhosts"
  /\ \/ /\ c.todo = {}
        /\ calls' = [calls EXCEPT ![w] = Finish(c, <<>>)]
        /\ UNCHANGED <<envIndex, vhostIndex>>
     \/ \E vhost \in c.todo :
          LET envs == Range(c.V[vhost]) IN
          \/ /\ envIndex' = UpdateEnvIndex(envIndex, vhost, c.y.ID, envs)
             /\ vhostIndex' = UpdateVhostIndex(vhostIndex, vhost, c.y, envs)
             /\ calls' = [calls EXCEPT ![w] =
                  [c EXCEPT !.todo = @ \ {vhost},
                            !.muts = Append(@, [op |-> "update", vhost |-> vhost, envs |-> envs])]]
          \/ /\ calls' = [calls EXCEPT ![w] = Finish(c, XdsError)]
             /\ UNCHANGED <<envIndex, vhostIndex>>
          \/ /\ calls' = [calls EXCEPT ![w] =
                  Finish([c EXCEPT !.recovered = TRUE], CanonicalError(c.y))]
             /\ UNCHANGED <<envIndex, vhostIndex>>

\* ----------------------------------------- ProcessMountedAPIProjects (80-145)
\* a child of the apis directory: a directory, a file named *.zip, another file
Child(kind, content) == [kind |-> kind, content |-> content]

\* a directory that ioutil.ReadDir listed and that Lstat does not find any more
\* when filepath.Walk starts on it
LostChild == Child("lost", Content(TRUE, FALSE, FALSE, ZeroAPIYaml, FALSE, <<>>))

ReadDirError == <<"open apis: no such file or directory">>

\* ProcessMountedAPIProjects going on after ReadDir failed, whatever the
\* configuration of the adapter server
ProcessMountedAPIProjects_IgnoresReadError(w, readable, serverEnabled, files) ==
  /\ calls[w].pc = "idle"
  /\ LET c0 == [IdleCall EXCEPT !.kind = "bootstrap", !.outcome = "running",
                                !.readable = readable, !.serverEnabled = serverEnabled,
                                !.listed = IF readable THEN files ELSE <<>>,
                                !.pre = [env |-> envIndex, vh |-> vhostIndex]]
     IN  calls' = [calls EXCEPT ![w] =
           [c0 EXCEPT !.pc = "next", !.files = IF readable THEN files ELSE <<>>]]
  /\ UNCHANGED <<envIndex, vhostIndex>>

\* Lines 81-90: the directory is listed; when that fails the error is returned
\* if the adapter server is disabled, else the loop runs over no files.
ProcessMountedAPIProjects(w, readable, serverEnabled, files) ==
  /\ calls[w].pc = "idle"
  /\ LET c0 == [IdleCall EXCEPT !.kind = "bootstrap", !.outcome = "running",
                                !.readable = readable, !.serverEnabled = serverEnabled,
                                !.listed = IF readable THEN files ELSE <<>>,
                                !.pre = [env |-> envIndex, vh |-> vhostIndex]]
     IN  calls' = [calls EXCEPT ![w] =
           IF ~readable /\ ~serverEnabled THEN Return(c0, ReadDirError)
           ELSE [c0 EXCEPT !.pc = "next", !.files = IF readable THEN files ELSE <<>>]]
  /\ UNCHANGED <<envIndex, vhostIndex>>

\* an artifact that is skipped before validateAndUpdateXds is reached
Skip(c, content, err) ==
  [c EXCEPT !.files = Tail(@),
            !.arts = Append(@, [badType |-> HasUnsupportedType(content),
                                badUrl |-> HasBadEndpoint(content),
                                defect |-> IsDefective(content), pid |-> IdOf(content),
                                child |-> Head(c.files),
                                err |-> err, muts |-> <<>>, y |-> Essentials(ZeroAPIYaml),
                                recovered |-> FALSE])]

\* Lines 92-144: the next child, up to the call of validateAndUpdateXds; the
\* return of line 144 when no child is left.  For a directory that Lstat does
\* not find, filepath.Walk calls the function of lines 97-106 with a nil info
\* and the error; info.IsDir() of line 99 then panics, and nothing recovers.
NextArtifact(w) ==
  LET c == calls[w] IN
  /\ c.kind = "bootstrap" /\ c.pc = "next"
  /\ calls' = [calls EXCEPT ![w] =
       IF c.files = <<>> THEN Return(c, <<>>)
       ELSE LET f == Head(c.files)
                r == IF f.kind = "dir" THEN walkAPIProject(f.content)
                     ELSE extractAPIProject(f.content)
            IN  IF f.kind = "lost" THEN [c EXCEPT !.pc = "done", !.outcome = "panicked"]
                ELSE IF f.kind = "file" THEN [c EXCEPT !.files = Tail(@)]
                ELSE IF r.err # <<>> THEN Skip(c, f.content, r.err)
                ELSE Enter(Noted(c, f.content), r.proj, FALSE)]
  /\ UNCHANGED <<envIndex, vhostIndex>>

\* ------------------------------------------------------- ListApis (292-302)
apiTypeFilterKey == <<"t","y","p","e">>

\* strings.Split(s, ":")
RECURSIVE SplitColon(_)
SplitColon(s) ==
  IF \E i \in 1..Len(s) : s[i] = ":"
  THEN LET k == CHOOSE i \in 1..Len(s) : s[i] = ":" /\ \A j \in 1..(i - 1) : s[j] # ":"
       IN  <<SubSeq(s, 1, k - 1)>> \o SplitColon(SubSeq(s, k + 1, Len(s)))
  ELSE <<s>>

\* query.nil: the pointer is nil.  With the filter key and no second element,
\* queryPair[1] is out of range and the call panics; nothing recovers.
ListApis(w, query) ==
  /\ calls[w].pc = "idle"
  /\ LET c0 == [IdleCall EXCEPT !.kind = "list", !.outcome = "running",
                                !.query = query,
                                !.pre = [env |-> envIndex, vh |-> vhostIndex]]
         queryPair == SplitColon(query.s)
     IN  calls' = [calls EXCEPT ![w] =
           IF ~query.nil /\ queryPair[1] = apiTypeFilterKey
           THEN IF Len(queryPair) < 2
                THEN [c0 EXCEPT !.pc = "done", !.outcome = "panicked"]
                ELSE Return([c0 EXCEPT !.filter = ToUpper(queryPair[2])], <<>>)
           ELSE Return(c0, <<>>)]
  /\ UNCHANGED <<envIndex, vhostIndex>>

\* --------------------------------------------------- xds.DeleteAPIsWithUUID
\* called on the index directly (an undeploy event)
DeleteAPIsWithUUID(w, vhost, id, envs, org) ==
  /\ calls[w].pc = "idle"
  /\ envIndex' = DeleteFromEnvIndex(envIndex, vhost, id, envs)
  /\ vhostIndex' = DeleteFromVhostIndex(vhostIndex, vhost, id, envs, org)
  /\ calls' = [calls EXCEPT ![w] =
       Return([IdleCall EXCEPT !.kind = "delete",
                               !.pre = [env |-> envIndex, vh |-> vhostIndex],
                               !.muts = <<[op |-> "delete", vhost |-> vhost, envs |-> envs]>>],
              <<>>)]

\* the caller drops the result of its last call
Forget(w) ==
  /\ calls[w].pc = "done"
  /\ calls' = [calls EXCEPT ![w] = IdleCall]
  /\ UNCHANGED <<envIndex, vhostIndex>>

\* ---------------------------------------------------------- specification
Overrides == {"nil", "false", "true"}

Query(nil, s) == [nil |-> nil, s |-> s]
Queries ==
  { Query(TRUE, <<>>), Query(FALSE, <<>>),
    Query(FALSE, <<"t","y","p","e",":","h","t","t","p">>),
    Query(FALSE, <<"t","y","p","e">>),
    Query(FALSE, <<"t","y","p","e",":">>),
    Query(FALSE, <<"n","a","m","e",":","x">>) }

Children ==
  { Child("file", Content(FALSE, FALSE, FALSE, ZeroAPIYaml, FALSE, <<>>)),
    Child("zip", Content(TRUE, FALSE, FALSE, ZeroAPIYaml, FALSE, <<>>)),
    LostChild,
    Child("dir", Content(FALSE, TRUE, TRUE, BaseDoc("A", 1), FALSE, <<>>)),
    Child("zip", Content(FALSE, TRUE, TRUE, BaseDoc("A", 2), TRUE, <<Deployment("e2", "v2")>>)),
    Child("dir", Content(FALSE, TRUE, TRUE,
                         [BaseDoc("A", 1) EXCEPT !.APIType = <<"s","o","a","p">>], FALSE, <<>>)),
    Child("zip", Content(FALSE, TRUE, TRUE,
                         [BaseDoc("A", 1) EXCEPT !.RawProdEndpoints = RawArray(<<RelativeUrl>>)],
                         FALSE, <<>>)) }

ArtifactLists == UNION {[1..n -> Children] : n \in 0..MaxArtifacts}

\* the steps of a call in progress
Step(w) ==
  \/ APIMLoop(w)
  \/ APIMScan(w)
  \/ APIMAllEnvs(w)
  \/ APIMUpdate(w)
  \/ APIMRemove(w)
  \/ CheckExists(w)
  \/ UpdateVhosts(w)
  \/ NextArtifact(w)
  \/ Forget(w)

\* the entry points, called by worker w with every other worker at rest and
\* no result in hand
Call(w, VH) ==
  /\ \A u \in Workers \ {w} : AtRest(calls[u])
  /\ calls[w].pc = "idle"
  /\ \/ \E payload \in PlainContents, V \in VhostToEnvsMaps(VH) :
          ApplyAPIProjectFromAPIM(w, payload, V)
     \/ \E payload \in DeployableContents(VH), override \in Overrides :
          ApplyAPIProjectInStandaloneMode(w, payload, override)
     \/ \E readable \in BOOLEAN, serverEnabled \in BOOLEAN, files \in ArtifactLists :
          ProcessMountedAPIProjects(w, readable, serverEnabled, files)
     \/ \E query \in Queries : ListApis(w, query)
     \/ \E vhost \in VH, id \in APIIds, e \in Environments :
          DeleteAPIsWithUUID(w, vhost, id, {e}, TenantDomain)

\* the project of a call that returned, in revision rev
SameProject(c, rev) ==
  Content(FALSE, TRUE, TRUE, BaseDoc(c.y.ID, rev), ~c.depsNil,
          IF c.depsNil THEN <<>> ELSE c.deps)

\* The follow-up of a call that returned without error: the same entry point is
\* given the same API (in any revision) with the same placement, right after.
FollowUp(w) ==
  LET c == calls[w] IN
  /\ \A u \in Workers \ {w} : AtRest(calls[u])
  /\ c.pc = "done" /\ c.outcome = "returned" /\ c.err = <<>> /\ c.prev = NoPrev
  /\ \/ /\ c.kind = "apim"
        /\ \E rev \in 1..MaxRevision : ApplyAPIProjectFromAPIM(w, SameProject(c, rev), c.V)
     \/ /\ c.kind = "standalone"
        /\ \E rev \in 1..MaxRevision, override \in Overrides :
             ApplyAPIProjectInStandaloneMode(w, SameProject(c, rev), override)

\* one worker: calls come one after the other
Next == Call("w1", Vhosts) \/ FollowUp("w1") \/ Step("w1")

Spec == Init /\ [][Next]_vars

\* ------------------------------------------- concurrent management-plane calls
\* Lines 240-252 run on one vhost without interruption: vhostsToRemove after
\* the environments envs[1..n] of vhost were looked up in ei
RECURSIVE ScanAll(_, _, _, _, _)
ScanAll(ei, id, vhost, envs, n) ==
  IF n = 0 THEN EmptyMap
  ELSE MarkForRemoval(ScanAll(ei, id, vhost, envs, n - 1), vhost, envs[n],
                      GetVhostOfAPI(ei, id, envs[n]))

\* Lines 269-278 without interruption: the index after every entry of toRemove
\* was deleted (the entries are of different vhosts, their order is immaterial)
RECURSIVE RemoveAll(_, _, _, _)
RemoveAll(idx, y, toRemove, todo) ==
  IF todo = {} THEN idx
  ELSE LET vhost == CHOOSE v \in todo : TRUE
           envs == Range(toRemove[vhost])
           rest == RemoveAll(idx, y, toRemove, todo \ {vhost})
       IN  [env |-> DeleteFromEnvIndex(rest.env, vhost, y.ID, envs),
            vh |-> DeleteFromVhostIndex(rest.vh, vhost, y.ID, envs, y.OrganizationID)]

\* Lines 240-278 without interruption and without failure, for a map of the
\* single vhost: the index that ApplyAPIProjectFromAPIM leaves
ApplyAlone(idx, y, vhost, envs) ==
  LET toRemove == ScanAll(idx.env, y.ID, vhost, envs, Len(envs))
      allEnvs == GetAllEnvironments(idx.vh, y.ID, vhost, Range(envs))
      updated == [env |-> UpdateEnvIndex(idx.env, vhost, y.ID, allEnvs),
                  vh |-> UpdateVhostIndex(idx.vh, vhost, y, allEnvs)]
  IN  RemoveAll(updated, y, toRemove, DOMAIN toRemove \ {""})

\* the call has parsed its payload and taken no further step, and the index is
\* still as the call found it
JustStarted(c) ==
  /\ c.kind = "apim" /\ c.pc = "loop" /\ c.todo = DOMAIN c.V /\ c.muts = <<>>
  /\ c.pre = [env |-> envIndex, vh |-> vhostIndex]

\* maps of a single vhost
SingleVhostMaps ==
  {[v \in {vhost} |-> l] : vhost \in Vhosts,
                           l \in {<<DefaultGatewayName>>, <<"e2">>, <<DefaultGatewayName, "e2">>}}

\* each worker deploys a revision of its own
RevisionOf(w) == IF w = "w1" THEN 1 ELSE MaxRevision

\* a worker calls ApplyAPIProjectFromAPIM while every other worker is idle or
\* has just started its own call: the calls of the workers overlap
StartConcurrently(w) ==
  /\ calls[w].pc = "idle"
  /\ \A u \in Workers \ {w} : calls[u].pc = "idle" \/ JustStarted(calls[u])
  /\ \E id \in APIIds, V \in SingleVhostMaps :
       ApplyAPIProjectFromAPIM(
          w, Content(FALSE, TRUE, TRUE, BaseDoc(id, RevisionOf(w)), FALSE, <<>>), V)

\* a step of the call of a worker; the xds functions are atomic, the steps of
\* different workers interleave.  A worker that ran alone drops its result.
StepConcurrently(w) ==
  \/ APIMLoop(w)
  \/ APIMScan(w)
  \/ APIMAllEnvs(w)
  \/ APIMUpdate(w)
  \/ APIMRemove(w)
  \/ (\A u \in Workers \ {w} : calls[u].pc = "idle") /\ Forget(w)

NextConcurrent == \E w \in Workers : StartConcurrently(w) \/ StepConcurrently(w)

SpecConcurrent == Init /\ [][NextConcurrent]_vars

\* ------------------------------------------------- callers naming no vhost
\* the vhosts of callers that may leave the vhost empty
VhostsOrEmpty == {"", DefaultVhost}

NextEmptyVhost == Call("w1", VhostsOrEmpty) \/ FollowUp("w1") \/ Step("w1")

SpecEmptyVhost == Init /\ [][NextEmptyVhost]_vars

\* --------------------------------- one environment under two deployments
\* deployment_environments is read as it is written: nothing in lines 147-207
\* keeps a list from naming one environment twice, under one vhost or two
SharedEnvLists ==
  {<<Deployment(e, v1), Deployment(e, v2)>> : e \in Environments, v1 \in Vhosts, v2 \in Vhosts}

SharedEnvContents ==
  {Content(FALSE, TRUE, TRUE, d, TRUE, l) : d \in ValidDocs, l \in SharedEnvLists}

CallSharedEnv(w) ==
  /\ calls[w].pc = "idle"
  /\ \E payload \in SharedEnvContents, override \in Overrides :
       ApplyAPIProjectInStandaloneMode(w, payload, override)

NextSharedEnv ==
  CallSharedEnv("w1") \/ CheckExists("w1") \/ UpdateVhosts("w1") \/ Forget("w1")

SpecSharedEnv == Init /\ [][NextSharedEnv]_vars

\* ------------------------------------------------- the manifest on its own
\* NewAPIYaml and ValidateAPIType applied to manifests of every shape
SpacedRelativeUrl == <<" ", "/", "x">>
\* a URL of a form feed and a no-break space
FormFeedUrl == <<"\f", "U+00A0">>

RawShapes ==
  {RawNil, RawOther, RawObject(GoodUrl), RawObject(RelativeUrl), RawObject(SpacedRelativeUrl),
   RawObject(FormFeedUrl),
   RawArray(<<>>), RawArray(<<GoodUrl>>), RawArray(<<GoodUrl, BlankUrl>>)}

\* the last two are 'w' and the long s (U+017F), of which the upper case is S,
\* and the Greek small omega (U+03C9) and 's'
APITypes ==
  {<<>>, <<"h","t","t","p">>, <<"W","s">>, WEBHOOK, <<"s","o","a","p">>, <<"w","U+017F">>,
   <<"U+03C9","s">>}

\* what the keys ProductionEndpoints and SandBoxEndpoints of a manifest give
ListedProduction == {<<>>, <<[Endpoint |-> GoodUrl]>>}
ListedSandbox == {<<>>, <<[Endpoint |-> RelativeUrl]>>}

ManifestDocs ==
  {[ZeroAPIYaml EXCEPT !.ID = "A", !.Name = n, !.Version = v, !.Context = c,
                       !.RevisionID = 1, !.APIType = t,
                       !.EndpointImplementationType = impl,
                       !.RawProdEndpoints = p, !.RawSandboxEndpoints = sb,
                       !.ProductionEndpoints = lp, !.SandBoxEndpoints = ls] :
     n \in {"", "X"}, v \in {"", "1"}, c \in {"", "/c"}, t \in APITypes,
     impl \in {"", InlineEndpointType}, p \in RawShapes, sb \in RawShapes,
     lp \in ListedProduction, ls \in ListedSandbox}

\* a manifest of which the name is a number: json.Unmarshal reports the name
\* and decodes the rest
HalfDecoded ==
  [ZeroAPIYaml EXCEPT !.Version = "1", !.APIType = <<"h","t","t","p">>]

ManifestFiles ==
  {[decodable |-> FALSE, doc |-> ZeroAPIYaml], [decodable |-> FALSE, doc |-> HalfDecoded]}
  \cup {[decodable |-> TRUE, doc |-> d] : d \in ManifestDocs}

\* NewAPIYaml(fileContent), lines 448-476
ReadManifest(w, file) ==
  LET r == NewAPIYaml(file) IN
  /\ calls[w].pc = "idle"
  /\ calls' = [calls EXCEPT ![w] =
       [IdleCall EXCEPT !.kind = "manifest", !.pc = "type", !.outcome = "running",
                        !.err = r.err,
                        !.manifest = [file |-> file, y |-> r.y,
                                      mandatory |-> IF file.decodable
                                                    THEN ValidateMandatoryFields(r.y) ELSE <<>>,
                                      typeErr |-> <<>>]]]
  /\ UNCHANGED <<envIndex, vhostIndex>>

\* ValidateAPIType on the APIYaml NewAPIYaml returned, lines 570-582
CheckType(w) ==
  LET c == calls[w] IN
  /\ c.kind = "manifest" /\ c.pc = "type"
  /\ calls' = [calls EXCEPT ![w] =
       [c EXCEPT !.pc = "done", !.outcome = "returned",
                 !.manifest.typeErr = ValidateAPIType(c.manifest.y)]]
  /\ UNCHANGED <<envIndex, vhostIndex>>

\* a manifest is read when no result is in hand
CallManifest(w) ==
  /\ calls[w].pc = "idle"
  /\ \E file \in ManifestFiles : ReadManifest(w, file)

NextManifest ==
  \/ CallManifest("w1")
  \/ CheckType("w1")
  \/ Forget("w1")

SpecManifest == Init /\ [][NextManifest]_vars

\* ------------------------------------------------- concurrent relocations
\* calls that place the API in the default environment under one of three
\* vhosts, so that two calls can move it from where it is to two other vhosts
RelocationVhosts == Vhosts \cup {"v3"}

RelocationMaps == {[v \in {vhost} |-> <<DefaultGatewayName>>] : vhost \in RelocationVhosts}

StartRelocation(w) ==
  /\ calls[w].pc = "idle"
  /\ \A u \in Workers \ {w} : calls[u].pc = "idle" \/ JustStarted(calls[u])
  /\ \E id \in APIIds, V \in RelocationMaps :
       ApplyAPIProjectFromAPIM(
          w, Content(FALSE, TRUE, TRUE, BaseDoc(id, RevisionOf(w)), FALSE, <<>>), V)

NextRelocation == \E w \in Workers : StartRelocation(w) \/ StepConcurrently(w)

SpecRelocation == Init /\ [][NextRelocation]_vars

\* ---------------------------------------------------- concurrent creations
\* the call has entered validateAndUpdateXds and made no index call yet, and
\* the index is still as the call found it
JustEntered(c) ==
  /\ c.kind = "standalone" /\ c.pc = "check" /\ c.i = 1 /\ c.muts = <<>>
  /\ c.pre = [env |-> envIndex, vh |-> vhostIndex]

\* projects to create: no deployment list, or a list that is not empty
NewProjects ==
  {Content(FALSE, TRUE, TRUE, BaseDoc(id, 1), FALSE, <<>>) : id \in APIIds}
  \cup {Content(FALSE, TRUE, TRUE, BaseDoc(id, 1), TRUE, l) :
          id \in APIIds, l \in DeploymentLists(Vhosts) \ {<<>>}}

\* a worker calls ApplyAPIProjectInStandaloneMode without override while every
\* other worker is idle or has just entered its own call
StartCreate(w) ==
  /\ calls[w].pc = "idle"
  /\ \A u \in Workers \ {w} : calls[u].pc = "idle" \/ JustEntered(calls[u])
  /\ \E payload \in NewProjects, override \in {"nil", "false"} :
       ApplyAPIProjectInStandaloneMode(w, payload, override)

\* a step of the call of a worker; the xds functions are atomic, the steps of
\* different workers interleave.  A worker that ran alone drops its result.
StepCreate(w) ==
  \/ CheckExists(w)
  \/ UpdateVhosts(w)
  \/ (\A u \in Workers \ {w} : calls[u].pc = "idle") /\ Forget(w)

NextCreate == \E w \in Workers : StartCreate(w) \/ StepCreate(w)

SpecCreate == Init /\ [][NextCreate]_vars

\* --------------------------------------- the loops of lines 240-278 in one order
\* Lines 242-252 on one vhost: vhostsToRemove, from toRemove on, after the
\* environments envs[1..n] of vhost were looked up in ei
RECURSIVE ScanInto(_, _, _, _, _, _)
ScanInto(toRemove, ei, id, vhost, envs, n) ==
  IF n = 0 THEN toRemove
  ELSE MarkForRemoval(ScanInto(toRemove, ei, id, vhost, envs, n - 1), vhost, envs[n],
                      GetVhostOfAPI(ei, id, envs[n]))

\* Lines 240-266 taking the keys of V in the order order[1..n], every UpdateAPI
\* succeeding: the index, vhostsToRemove and deployedRevisionList after them
RECURSIVE UpdateInOrder(_, _, _, _, _)
UpdateInOrder(idx, y, V, order, n) ==
  IF n = 0 THEN [idx |-> idx, toRemove |-> EmptyMap, revs |-> <<>>]
  ELSE LET before == UpdateInOrder(idx, y, V, order, n - 1)
           vhost == order[n]
           envs == V[vhost]
           toRemove == ScanInto(before.toRemove, before.idx.env, y.ID, vhost, envs, Len(envs))
           allEnvs == GetAllEnvironments(before.idx.vh, y.ID, vhost, Range(envs))
       IN  [idx |-> [env |-> UpdateEnvIndex(before.idx.env, vhost, y.ID, allEnvs),
                     vh |-> UpdateVhostIndex(before.idx.vh, vhost, y, allEnvs)],
            toRemove |-> toRemove,
            revs |-> AppendRevision(before.revs, DeployedRevision(vhost, y, allEnvs))]

\* Lines 240-278 taking the keys of V in the order order, every index call
\* succeeding: the index the call leaves and the revisions it returns
ApplyInOrder(idx, y, V, order) ==
  LET updated == UpdateInOrder(idx, y, V, order, Len(order))
  IN  [idx |-> RemoveAll(updated.idx, y, updated.toRemove, DOMAIN updated.toRemove \ {""}),
       revs |-> updated.revs]

\* the orders in which range may take the keys of a map
Orders(V) == {o \in [1..Cardinality(DOMAIN V) -> DOMAIN V] : Range(o) = DOMAIN V}

\* ------------------------------------------------- a revision after a create
\* the valid projects the standalone entry point may be given: every revision
\* of the API, without a deployment list or with any of the lists
RevisionProjects ==
  {Content(FALSE, TRUE, TRUE, d, FALSE, <<>>) : d \in ValidDocs}
  \cup {Content(FALSE, TRUE, TRUE, d, TRUE, l) : d \in ValidDocs, l \in DeploymentLists(Vhosts)}

\* ApplyAPIProjectInStandaloneMode(p, override) with override nil or false
StartRevision(w) ==
  /\ calls[w].pc = "idle"
  /\ \E payload \in RevisionProjects, override \in {"nil", "false"} :
       ApplyAPIProjectInStandaloneMode(w, payload, override)

\* after such a call returned without error, ApplyAPIProjectInStandaloneMode(p',
\* true) for a revision p' of the same API, whatever deployments p' names
FollowUpRevision(w) ==
  LET c == calls[w] IN
  /\ c.kind = "standalone" /\ c.pc = "done" /\ c.outcome = "returned"
  /\ c.err = <<>> /\ ~c.override /\ c.prev = NoPrev
  /\ \E payload \in {p \in RevisionProjects : p.api.doc.ID = c.y.ID} :
       ApplyAPIProjectInStandaloneMode(w, payload, "true")

NextRevision ==
  \/ StartRevision("w1")
  \/ FollowUpRevision("w1")
  \/ CheckExists("w1")
  \/ UpdateVhosts("w1")
  \/ Forget("w1")

SpecRevision == Init /\ [][NextRevision]_vars

\* ----------------------------------------------------------------- claims
Done(c) == c.pc = "done"
Succeeded(c) == c.pc = "done" /\ c.outcome = "returned" /\ c.err = <<>>
Failed(c) == c.pc = "done" /\ c.outcome = "returned" /\ c.err # <<>>

\* the API is active under vhost in environment env
Active(vi, vhost, id, env) ==
  \E k \in DOMAIN vi : k[1] = vhost /\ k[3] = id /\ env \in vi[k].envs

\* the index as a call's pre-state records it
IndexNow == [env |-> envIndex, vh |-> vhostIndex]

\* C1: when ApplyAPIProjectFromAPIM(p, V) has returned success, every
\* environment e listed under a vhost v of V resolves to v:
\* GetVhostOfAPI(p.id, e) = (v, true).
C1_RequestedEnvsResolve ==
  \A w \in Workers :
    LET c == calls[w] IN
    (c.kind = "apim" /\ Succeeded(c)) =>
      \A v \in DOMAIN c.V : \A e \in Range(c.V[v]) :
        GetVhostOfAPI(envIndex, c.y.ID, e) = [vhost |-> v, exists |-> TRUE]

\* the pre-state has the API under vhost v1 in environment e1 and nowhere else
OnlyAt(pre, id, v1, e1) ==
  /\ \A k \in DOMAIN pre.env : k[1] = id => k[2] = e1 /\ pre.env[k] = v1
  /\ <<id, e1>> \in DOMAIN pre.env
  /\ \A k \in DOMAIN pre.vh : k[3] = id => k[1] = v1 /\ pre.vh[k].envs = {e1}
  /\ \E k \in DOMAIN pre.vh : k[3] = id

\* a finished relocation: the API was only at (v1, e1), and the call asked for
\* e1 under the single other vhost v2
Relocation(c, v1, v2, e1) ==
  /\ c.kind = "apim" /\ Succeeded(c)
  /\ v1 # v2 /\ DOMAIN c.V = {v2} /\ c.V[v2] = <<e1>>
  /\ OnlyAt(c.pre, c.y.ID, v1, e1)

\* C2: if the API is deployed under v1 in e1 and nowhere else, then after
\* ApplyAPIProjectFromAPIM(p, {v2: [e1]}) has succeeded GetVhostOfAPI(p.id, e1)
\* is (v2, true) and IsAPIExist(v1, p.id, ...) is false.
C2_RelocationMovesTheAPI ==
  \A w \in Workers : \A v1, v2 \in Vhosts : \A e1 \in Environments :
    LET c == calls[w] IN
    Relocation(c, v1, v2, e1) =>
      /\ GetVhostOfAPI(envIndex, c.y.ID, e1) = [vhost |-> v2, exists |-> TRUE]
      /\ ~IsAPIExist(vhostIndex, v1, c.y.ID, c.y.Name, c.y.Version, c.y.OrganizationID)

\* a relocation from localhost to v2 has finished
C2_Witness ==
  \E w \in Workers :
    /\ Relocation(calls[w], DefaultVhost, "v2", DefaultGatewayName)
    /\ IsAPIExist(vhostIndex, "v2", calls[w].y.ID, calls[w].y.Name,
                  calls[w].y.Version, calls[w].y.OrganizationID)

\* C3: invariant I1 in every quiescent state: for each API and environment at
\* most one vhost has the API active in that environment.
C3_OneVhostPerEnvironment ==
  Quiet =>
    \A id \in APIIds : \A e \in Environments : \A v1, v2 \in Vhosts :
      Active(vhostIndex, v1, id, e) /\ Active(vhostIndex, v2, id, e) => v1 = v2

\* the call repeats, in standalone mode, a call of standalone mode that
\* succeeded with override false
AfterCreate(c) ==
  /\ c.kind = "standalone" /\ Done(c)
  /\ c.prev.kind = "standalone" /\ ~c.prev.override

\* C4: after a successful ApplyAPIProjectInStandaloneMode(p, false), a second
\* ApplyAPIProjectInStandaloneMode(p, false) returns the AlreadyExists error
\* and leaves the index as it was before the second call.
C4_DuplicateIsRejected ==
  \A w \in Workers :
    LET c == calls[w] IN
    (AfterCreate(c) /\ c.prev.sameIn /\ ~c.override) =>
      /\ c.outcome = "returned" /\ c.err = AlreadyExists
      /\ IndexNow = c.pre

\* the keys of the vhost index under which the deployments of a call put its
\* project
NamedKeys(c) ==
  {<<c.deps[i].DeploymentVhost, c.y.OrganizationID, c.y.ID, c.y.Version>> :
     i \in 1..Len(c.deps)}

\* the deployments of the call name a vhost, and they name no environment in
\* which an entry of the index the call found is active: the call moves no
\* environment from a vhost to another
NamesNewEnvironments(c) ==
  /\ c.deps # <<>>
  /\ \A k \in DOMAIN c.pre.vh : \A i \in 1..Len(c.deps) :
       c.deps[i].DeploymentEnvironment \notin c.pre.vh[k].envs

\* C5 as the specification states it: the second call, with override true and
\* a revision p' of p, succeeds, and afterwards every (vhost, organization,
\* apiId, version) of the API has exactly the revision of the second call.
\* Taken for the revisions p' that name a vhost and move no environment, with
\* every environment of the API under one vhost afterwards.
C5_EveryVhostHasSecondRevision ==
  \A w \in Workers :
    LET c == calls[w] IN
    (AfterCreate(c) /\ c.override /\ NamesNewEnvironments(c)) =>
      /\ c.err # AlreadyExists
      /\ (Succeeded(c) /\ C3_OneVhostPerEnvironment) =>
           \A k \in DOMAIN vhostIndex :
             k[3] = c.y.ID => vhostIndex[k].revisionId = c.y.RevisionID

\* C5: after ApplyAPIProjectInStandaloneMode(p, false) succeeded, the call
\* ApplyAPIProjectInStandaloneMode(p', true) is never rejected as
\* AlreadyExists; when it returns without error, the revision active under
\* each vhost of the deployments of p' is the one p' carries, and every entry
\* under a vhost the deployments of p' do not name is as it was before the
\* call, revision included.
C5_DeploymentVhostsHaveSecondRevision ==
  \A w \in Workers :
    LET c == calls[w] IN
    (AfterCreate(c) /\ c.override) =>
      /\ c.err # AlreadyExists
      /\ Succeeded(c) =>
           /\ \A k \in NamedKeys(c) :
                k \in DOMAIN vhostIndex /\ vhostIndex[k].revisionId = c.y.RevisionID
           /\ \A k \in DOMAIN c.pre.vh \ NamedKeys(c) :
                k \in DOMAIN vhostIndex /\ vhostIndex[k] = c.pre.vh[k]
           /\ DOMAIN vhostIndex = DOMAIN c.pre.vh \cup NamedKeys(c)

\* an override call that succeeded replaced the revision under the vhost it
\* names and left another revision under a vhost it does not name
C5_Witness ==
  \E w \in Workers :
    LET c == calls[w] IN
    /\ AfterCreate(c) /\ c.override /\ Succeeded(c)
    /\ \E k \in NamedKeys(c) :
         /\ k \in DOMAIN c.pre.vh
         /\ c.pre.vh[k].revisionId # c.y.RevisionID
         /\ vhostIndex[k].revisionId = c.y.RevisionID
    /\ \E k \in DOMAIN c.pre.vh \ NamedKeys(c) :
         vhostIndex[k].revisionId # c.y.RevisionID


\* the API id is under no vhost
NowhereDeployed(vi, id) == \A k \in DOMAIN vi : k[3] # id

\* C6 as the specification states it: given a project of an unsupported type,
\* ApplyAPIProjectFromAPIM, ApplyAPIProjectInStandaloneMode and
\* ProcessMountedAPIProjects each return an error, and afterwards IsAPIExist
\* is false for the project's id under every vhost.
C6_EveryEntryPointReturnsError ==
  \A w \in Workers :
    LET c == calls[w] IN
    Done(c) =>
      /\ (c.kind \in {"apim", "standalone"} /\ c.badType) =>
            c.err # <<>> /\ NowhereDeployed(vhostIndex, c.pid)
      /\ c.kind = "bootstrap" =>
            \A i \in 1..Len(c.arts) :
              c.arts[i].badType =>
                 c.err # <<>> /\ NowhereDeployed(vhostIndex, c.arts[i].pid)

\* C6: given a project of an unsupported type, ApplyAPIProjectFromAPIM and
\* ApplyAPIProjectInStandaloneMode return an error and leave the index as it
\* was (IsAPIExist answers as before the call); ProcessMountedAPIProjects
\* fails that artifact only, mutates nothing for it, and itself returns nil.
C6_UnsupportedTypeIsRejected ==
  \A w \in Workers :
    LET c == calls[w] IN
    (Done(c) /\ c.outcome = "returned") =>
      /\ (c.kind \in {"apim", "standalone"} /\ c.badType) =>
            Failed(c) /\ c.muts = <<>> /\ IndexNow = c.pre
      /\ c.kind = "bootstrap" =>
            \A i \in 1..Len(c.arts) :
              c.arts[i].badType =>
                 c.arts[i].err # <<>> /\ c.arts[i].muts = <<>> /\ c.err = <<>>

\* a start-up replay skipped an artifact of an unsupported type and deployed
\* another artifact
C6_Witness ==
  \E w \in Workers :
    LET c == calls[w] IN
    /\ Done(c) /\ c.kind = "bootstrap"
    /\ \E i \in 1..Len(c.arts) : c.arts[i].badType
    /\ \E i \in 1..Len(c.arts) : c.arts[i].muts # <<>>

\* C7 as the specification states it: given a project with a blank or
\* relative endpoint URL, every entry point returns an error and performs no
\* index mutation for the project.
C7_EveryEntryPointFails ==
  \A w \in Workers :
    LET c == calls[w] IN
    Done(c) =>
      /\ (c.kind \in {"apim", "standalone"} /\ c.badUrl) =>
            c.err # <<>> /\ c.muts = <<>>
      /\ c.kind = "bootstrap" =>
            \A i \in 1..Len(c.arts) :
              c.arts[i].badUrl => c.err # <<>> /\ c.arts[i].muts = <<>>

\* C7: given a project with a blank or relative endpoint URL,
\* ApplyAPIProjectFromAPIM and ApplyAPIProjectInStandaloneMode return an
\* error, ProcessMountedAPIProjects fails that artifact only and itself
\* returns nil, and none of them performs an index mutation for the project.
C7_BadEndpointIsRejected ==
  \A w \in Workers :
    LET c == calls[w] IN
    (Done(c) /\ c.outcome = "returned") =>
      /\ (c.kind \in {"apim", "standalone"} /\ c.badUrl) =>
            Failed(c) /\ c.muts = <<>> /\ IndexNow = c.pre
      /\ c.kind = "bootstrap" =>
            \A i \in 1..Len(c.arts) :
              c.arts[i].badUrl =>
                 c.arts[i].err # <<>> /\ c.arts[i].muts = <<>> /\ c.err = <<>>

\* a start-up replay skipped an artifact with a bad endpoint (of a supported
\* type) and deployed another artifact
C7_Witness ==
  \E w \in Workers :
    LET c == calls[w] IN
    /\ Done(c) /\ c.kind = "bootstrap"
    /\ \E i \in 1..Len(c.arts) : c.arts[i].badUrl /\ ~c.arts[i].badType
    /\ \E i \in 1..Len(c.arts) : c.arts[i].muts # <<>>


\* C8: when parsing or validation of the payload fails (corrupt archive,
\* manifest absent or not decodable, mandatory field missing, no endpoint,
\* INLINE implementation type), ApplyAPIProjectFromAPIM and
\* ApplyAPIProjectInStandaloneMode return an error and the index after the
\* call equals the index before it.
C8_RejectedPayloadLeavesIndex ==
  \A w \in Workers :
    LET c == calls[w] IN
    (Done(c) /\ c.kind \in {"apim", "standalone"} /\ c.defect) =>
      Failed(c) /\ IndexNow = c.pre /\ c.muts = <<>>

\* a defective payload was rejected while the index held a deployment
C8_Witness ==
  \E w \in Workers :
    LET c == calls[w] IN
    /\ Done(c) /\ c.kind \in {"apim", "standalone"} /\ c.defect
    /\ ~c.badType /\ ~c.badUrl
    /\ c.pre.vh # EmptyMap

\* the call returned the error of a failed or panicked index mutation
\* (the payload passed parsing and validation, and the error is not AlreadyExists)
MutationFailed(c) ==
  /\ Failed(c) /\ c.kind \in {"apim", "standalone"}
  /\ ~c.defect /\ ~c.badType /\ ~c.badUrl
  /\ c.err # AlreadyExists

\* C9: when ApplyAPIProjectFromAPIM or ApplyAPIProjectInStandaloneMode returns
\* an error because an index mutation failed or panicked, the index after the
\* call equals the index before it, also when the failure is on a vhost other
\* than the first one processed.
C9_FailedMutationLeavesIndex ==
  \A w \in Workers :
    MutationFailed(calls[w]) => IndexNow = calls[w].pre

\* C10: a panic raised at any step of ApplyAPIProjectFromAPIM,
\* ApplyAPIProjectInStandaloneMode, ProcessMountedAPIProjects or ListApis is
\* converted into an error return and never propagates to the caller.
C10_NoPanicReachesTheCaller ==
  \A w \in Workers : calls[w].outcome # "panicked"

\* a delete is never followed by an update in the log of a call's mutations
AppliesPrecedeRemoves(muts) ==
  \A i, j \in 1..Len(muts) :
    (muts[i].op = "delete" /\ muts[j].op = "update") => j < i

\* C11: within one ApplyAPIProjectFromAPIM call every UpdateAPI step precedes
\* every DeleteAPIsWithUUID step, and in every state of the call (intermediate
\* or final) GetVhostOfAPI finds the API in each requested environment in
\* which it was deployed before the call.
C11_AppliesBeforeRemovesKeepPresence ==
  \A w \in Workers :
    LET c == calls[w] IN
    (c.kind = "apim" /\ c.pc # "idle" /\ c.err = <<>>) =>
      /\ AppliesPrecedeRemoves(c.muts)
      /\ \A v \in DOMAIN c.V : \A e \in Range(c.V[v]) :
           <<c.y.ID, e>> \in DOMAIN c.pre.env =>
              GetVhostOfAPI(envIndex, c.y.ID, e).exists

\* the index after the call c1 and then the call c2 ran alone, one after the
\* other, from the index idx
OneAfterTheOther(idx, c1, c2) ==
  LET v1 == CHOOSE v \in DOMAIN c1.V : TRUE
      v2 == CHOOSE v \in DOMAIN c2.V : TRUE
  IN  ApplyAlone(ApplyAlone(idx, c1.y, v1, c1.V[v1]), c2.y, v2, c2.V[v2])

\* C12: when two ApplyAPIProjectFromAPIM calls for the same API have run
\* concurrently and both returned success, the index equals the one that the
\* two calls leave when run one after the other in some order (and so holds
\* the revision of the call ordered last).
C12_ConcurrentAppliesAreSerialized ==
  LET c1 == calls["w1"]
      c2 == calls["w2"]
  IN  (c1.kind = "apim" /\ c2.kind = "apim" /\ Succeeded(c1) /\ Succeeded(c2)
       /\ c1.y.ID = c2.y.ID) =>
        IndexNow \in {OneAfterTheOther(c1.pre, c1, c2), OneAfterTheOther(c1.pre, c2, c1)}

\* the call repeats, right after it, a successful ApplyAPIProjectFromAPIM call
\* with the same payload and the same map
Repeated(c) ==
  c.kind = "apim" /\ Succeeded(c) /\ c.prev.kind = "apim" /\ c.prev.sameIn

\* C13: ApplyAPIProjectFromAPIM called twice in a row with the same inputs
\* leaves the index after the second call as it was after the first, and both
\* calls return the same DeployedRevision values.
C13_ApplyIsIdempotent ==
  \A w \in Workers :
    LET c == calls[w] IN
    Repeated(c) =>
      /\ IndexNow = c.pre
      /\ Range(c.revs) = Range(c.prev.revs)

\* a child that carries a project which passes parsing and validation
ValidChild(ch) ==
  /\ ch.kind \in {"dir", "zip"}
  /\ ~IsDefective(ch.content) /\ ~HasUnsupportedType(ch.content) /\ ~HasBadEndpoint(ch.content)

\* the deployments of the project of a child, the default one when it has no list
Placements(ch) ==
  IF ch.content.hasDeployments THEN ch.content.deployments
  ELSE <<Deployment(DefaultGatewayName, DefaultVhost)>>

\* the log of mutations holds an update of vhost
Updated(muts, vhost) ==
  \E n \in 1..Len(muts) : muts[n].op = "update" /\ muts[n].vhost = vhost

\* the project of the i-th processed child was in the index, under one of its
\* vhosts, before the child was processed: the call found it there, or a
\* child processed before deployed it
ExistedBefore(c, i) ==
  LET d == c.arts[i].child.content.api.doc IN
  \E n \in 1..Len(Placements(c.arts[i].child)) :
    LET vhost == Placements(c.arts[i].child)[n].DeploymentVhost IN
    \/ \E k \in DOMAIN c.pre.vh : k[1] = vhost /\ k[3] = d.ID /\ k[4] = d.Version
    \/ \E j \in 1..(i - 1) :
         /\ c.arts[j].y.ID = d.ID /\ c.arts[j].y.Version = d.Version
         /\ Updated(c.arts[j].muts, vhost)

\* the children of a listing that are directories or .zip files
RECURSIVE Artifacts(_)
Artifacts(listed) ==
  IF listed = <<>> THEN <<>>
  ELSE IF Head(listed).kind = "file" THEN Artifacts(Tail(listed))
       ELSE <<Head(listed)>> \o Artifacts(Tail(listed))

\* C14: for every readable artifacts directory and every mix of children,
\* ProcessMountedAPIProjects returns nil, processes every directory and .zip
\* child whatever failed on the children before it, and deploys every valid
\* child that did not exist in the index (unless the index itself failed).
C14_BootstrapNeverAborts ==
  \A w \in Workers :
    LET c == calls[w] IN
    (Done(c) /\ c.kind = "bootstrap" /\ c.readable) =>
      /\ c.outcome = "returned" /\ c.err = <<>>
      /\ [i \in 1..Len(c.arts) |-> c.arts[i].child] = Artifacts(c.listed)
      /\ \A i \in 1..Len(c.arts) :
           LET a == c.arts[i] IN
           (ValidChild(a.child) /\ ~ExistedBefore(c, i)
            /\ ~a.recovered /\ a.err # XdsError) =>
              /\ a.err = <<>>
              /\ \A n \in 1..Len(Placements(a.child)) :
                   Updated(a.muts, Placements(a.child)[n].DeploymentVhost)

\* C15: when the apis directory cannot be read, ProcessMountedAPIProjects
\* returns the read error if the adapter server is disabled and nil
\* otherwise; in both cases no artifact is processed and the index stays as
\* it was (empty, when the call is made at start-up).
C15_UnreadableDirectory ==
  \A w \in Workers :
    LET c == calls[w] IN
    (Done(c) /\ c.kind = "bootstrap" /\ ~c.readable) =>
      /\ c.outcome = "returned"
      /\ c.err = IF c.serverEnabled THEN <<>> ELSE ReadDirError
      /\ c.arts = <<>> /\ c.muts = <<>>
      /\ IndexNow = c.pre
      /\ c.pre = [env |-> EmptyMap, vh |-> EmptyMap] =>
           envIndex = EmptyMap /\ vhostIndex = EmptyMap

\* the replay returned the read error, the adapter server being disabled
C15_Witness ==
  \E w \in Workers :
    LET c == calls[w] IN
    /\ Done(c) /\ c.kind = "bootstrap" /\ ~c.readable /\ ~c.serverEnabled
    /\ c.err = ReadDirError

\* the query is given and has the form type:<value>
IsTypeQuery(query) ==
  /\ ~query.nil
  /\ Len(query.s) > Len(apiTypeFilterKey)
  /\ SubSeq(query.s, 1, Len(apiTypeFilterKey) + 1) = apiTypeFilterKey \o <<":">>

\* the type filter the listing is asked with: the uppercased value of a query
\* type:<value>, none (the empty string) for every other query
ExpectedFilter(query) ==
  IF IsTypeQuery(query)
  THEN ToUpper(SubSeq(query.s, Len(apiTypeFilterKey) + 2, Len(query.s)))
  ELSE <<>>

\* C16: ListApis returns the listing filtered by the uppercased value for a
\* query of the form type:<value>, and the unfiltered listing for every other
\* query: absent, empty, another key, or the key type with no ':' and no value.
C16_ListFiltersByType ==
  \A w \in Workers :
    LET c == calls[w] IN
    (Done(c) /\ c.kind = "list") =>
      c.outcome = "returned" /\ c.filter = ExpectedFilter(c.query)

\* C17: in every reachable state of the index, whatever the arguments of the
\* calls (a vhostToEnvsMap or a deployment list may name the empty vhost), no
\* deployment is stored under the empty vhost.
C17_NothingUnderEmptyVhost ==
  /\ \A k \in DOMAIN vhostIndex : k[1] # ""
  /\ \A k \in DOMAIN envIndex : envIndex[k] # ""

\* a call in standalone mode, without override, of a valid project that
\* carries no deployment list, on an empty index, has returned
DefaultDeployment(c) ==
  /\ Done(c) /\ c.kind = "standalone" /\ ~c.override
  /\ ~c.defect /\ ~c.badType /\ ~c.badUrl /\ c.depsNil
  /\ c.pre = [env |-> EmptyMap, vh |-> EmptyMap]

\* C18: a project without a deployment list is deployed to exactly one
\* placement, (default environment, default vhost) with DisplayOnDevportal
\* true: on an empty index ApplyAPIProjectInStandaloneMode(p, false) of a valid
\* p without deployments succeeds (unless the index update itself fails) and
\* IsAPIExist(default vhost, p.id, p.name, p.version, org) is true afterwards.
C18_DefaultDeploymentIsSynthesized ==
  \A w \in Workers :
    LET c == calls[w] IN
    DefaultDeployment(c) =>
      /\ c.deps = <<[DeploymentEnvironment |-> DefaultGatewayName,
                     DeploymentVhost |-> DefaultVhost, DisplayOnDevportal |-> TRUE]>>
      /\ c.outcome = "returned"
      /\ (~c.recovered /\ c.err # XdsError) =>
           /\ c.err = <<>>
           /\ c.muts = <<[op |-> "update", vhost |-> DefaultVhost, envs |-> {DefaultGatewayName}]>>
           /\ IsAPIExist(vhostIndex, DefaultVhost, c.y.ID, c.y.Name, c.y.Version,
                         c.y.OrganizationID)
           /\ DOMAIN vhostIndex = {<<DefaultVhost, c.y.OrganizationID, c.y.ID, c.y.Version>>}

\* such a call succeeded and the API exists under the default vhost
C18_Witness ==
  \E w \in Workers :
    LET c == calls[w] IN
    /\ DefaultDeployment(c) /\ Succeeded(c)
    /\ IsAPIExist(vhostIndex, DefaultVhost, c.y.ID, c.y.Name, c.y.Version, c.y.OrganizationID)

\* the vhosts named by the deployments of a call
DeploymentVhosts(c) == {c.deps[i].DeploymentVhost : i \in 1..Len(c.deps)}

\* the vhosts of the call's deployments under which the project was already
\* there when the call began
ExistingVhosts(c) ==
  {v \in DeploymentVhosts(c) :
     IsAPIExist(c.pre.vh, v, c.y.ID, c.y.Name, c.y.Version, c.y.OrganizationID)}

\* a call in standalone mode without override of a valid project whose
\* deployments name several vhosts has returned
SeveralVhosts(c) ==
  /\ Done(c) /\ c.kind = "standalone" /\ ~c.override
  /\ ~c.defect /\ ~c.badType /\ ~c.badUrl
  /\ Cardinality(DeploymentVhosts(c)) > 1

\* C19: ApplyAPIProjectInStandaloneMode with override false on a project with
\* several deployment vhosts: when the project exists under at least one of
\* them the call returns AlreadyExists and has updated no vhost, the vhosts
\* under which the project does not exist yet included.
C19_ExistsOnOneVhostRejectsAll ==
  \A w \in Workers :
    LET c == calls[w] IN
    (SeveralVhosts(c) /\ ExistingVhosts(c) # {}) =>
      /\ c.outcome = "returned" /\ c.err = AlreadyExists
      /\ c.muts = <<>>
      /\ IndexNow = c.pre

\* the call was rejected although the first vhost it names did not hold the
\* project yet
C19_Witness ==
  \E w \in Workers :
    LET c == calls[w] IN
    /\ SeveralVhosts(c) /\ ExistingVhosts(c) # {}
    /\ c.deps[1].DeploymentVhost \notin ExistingVhosts(c)
    /\ c.err = AlreadyExists /\ c.muts = <<>>

\* the environments in which the API of y is deployed under vhost in the
\* vhost index vi
EnvsUnder(vi, vhost, y) ==
  LET k == <<vhost, y.OrganizationID, y.ID, y.Version>> IN
  IF k \in DOMAIN vi THEN vi[k].envs ELSE {}

\* a call from the management plane that names the one vhost v has succeeded
\* and the API was deployed under v when it began
Redeploy(c, v) ==
  /\ Succeeded(c) /\ c.kind = "apim"
  /\ DOMAIN c.V = {v}
  /\ EnvsUnder(c.pre.vh, v, c.y) # {}

\* C20: a partial re-deploy does not orphan environments: when the API is
\* deployed under vhost v in the environments E0 and
\* ApplyAPIProjectFromAPIM(A, {v: E1}) succeeds, UpdateAPI was called for v with
\* the union of E1 and E0, and the API is afterwards deployed under v in every
\* environment of E0 and of E1.
C20_RedeployKeepsEnvironments ==
  \A w \in Workers : \A v \in DOMAIN calls[w].V :
    LET c  == calls[w]
        E0 == EnvsUnder(c.pre.vh, v, c.y)
        E1 == Range(c.V[v])
    IN
    Redeploy(c, v) =>
      /\ \E i \in 1..Len(c.muts) :
           c.muts[i] = [op |-> "update", vhost |-> v, envs |-> E0 \cup E1]
      /\ (E0 \cup E1) \subseteq EnvsUnder(vhostIndex, v, c.y)
      /\ \A e \in E0 \cup E1 : GetVhostOfAPI(envIndex, c.y.ID, e) = [vhost |-> v, exists |-> TRUE]

\* the call requested an environment the API was not in and left out one it
\* was in
C20_Witness ==
  \E w \in Workers : \E v \in DOMAIN calls[w].V :
    LET c  == calls[w]
        E0 == EnvsUnder(c.pre.vh, v, c.y)
        E1 == Range(c.V[v])
    IN
    /\ Redeploy(c, v)
    /\ E0 \ E1 # {} /\ E1 \ E0 # {}
    /\ (E0 \cup E1) \subseteq EnvsUnder(vhostIndex, v, c.y)

\* the entries (vhost, env) of a map from vhosts to environment lists
Entries(m) == UNION {{<<v, m[v][i]>> : i \in 1..Len(m[v])} : v \in DOMAIN m}

\* the environments a call requests, under any vhost
Requested(c) == {p[2] : p \in Entries(c.V)}

\* (oldVhost, env) for the requested environments env in which the API was
\* deployed under a vhost other than the requested one when the call began
ExpectedRemoveSet(c) ==
  {<<c.pre.env[<<c.y.ID, p[2]>>], p[2]>> :
     p \in {q \in Entries(c.V) : /\ <<c.y.ID, q[2]>> \in DOMAIN c.pre.env
                                  /\ c.pre.env[<<c.y.ID, q[2]>>] # q[1]}}

\* the removals of a call from the management plane start
RemovalsStart(c) ==
  c.kind = "apim" /\ c.pc = "remove" /\ c.todo = DOMAIN c.toRemove

\* C21: the remove set of ApplyAPIProjectFromAPIM contains (oldVhost, env)
\* exactly for the requested environments env in which the API is deployed
\* under a vhost different from the requested one; the deployments of the API
\* under the old vhost in environments that were not requested are left
\* unchanged by the call.
C21_RemoveSetIsExact ==
  \A w \in Workers :
    LET c == calls[w] IN
    /\ RemovalsStart(c) => Entries(c.toRemove) = ExpectedRemoveSet(c)
    /\ (Succeeded(c) /\ c.kind = "apim") =>
         \A p \in ExpectedRemoveSet(c) : \A e \in Environments \ Requested(c) :
           /\ Active(vhostIndex, p[1], c.y.ID, e) = Active(c.pre.vh, p[1], c.y.ID, e)
           /\ GetVhostOfAPI(envIndex, c.y.ID, e) = GetVhostOfAPI(c.pre.env, c.y.ID, e)

\* a step of the removals of worker w
RemovalStep(w) ==
  calls[w].kind = "apim" /\ calls[w].pc = "remove" /\ calls'[w] # calls[w]

\* what a step of the removals of worker w may do
SkipsEmptyVhost(w) ==
  LET c == calls[w]
      d == calls'[w]
  IN
  RemovalStep(w) =>
    /\ d.pc = "remove" => \E v \in c.todo : d.todo = c.todo \ {v}
    /\ ("" \in c.todo /\ d.todo = c.todo \ {""}) =>
         /\ UNCHANGED <<envIndex, vhostIndex>>
         /\ d.muts = c.muts
         /\ d.pc = "remove"
    /\ \A i \in 1..Len(d.muts) : d.muts[i].op = "delete" => d.muts[i].vhost # ""
    /\ (d.pc = "done" /\ d.err = <<>>) =>
         /\ c.todo = {}
         /\ \A v \in (DOMAIN c.toRemove) \ {""} :
              \E i \in 1..Len(c.muts) :
                c.muts[i] = [op |-> "delete", vhost |-> v, envs |-> Range(c.toRemove[v])]

\* C22: an entry of vhostsToRemove whose vhost is the empty string is skipped by
\* ApplyAPIProjectFromAPIM: DeleteAPIsWithUUID is not called for it, the index
\* is not changed by it, and the other entries are still processed.
C22_EmptyVhostEntryIsSkipped == [][\A w \in Workers : SkipsEmptyVhost(w)]_vars

\* the removals went through an entry of the empty vhost and an entry of
\* another vhost, and only the latter was deleted
C22_Witness ==
  \E w \in Workers :
    LET c == calls[w] IN
    /\ c.kind = "apim" /\ c.pc = "remove" /\ c.todo = {}
    /\ "" \in DOMAIN c.toRemove /\ DOMAIN c.toRemove # {""}
    /\ \A v \in (DOMAIN c.toRemove) \ {""} :
         \E i \in 1..Len(c.muts) :
           c.muts[i] = [op |-> "delete", vhost |-> v, envs |-> Range(c.toRemove[v])]
    /\ \A i \in 1..Len(c.muts) : c.muts[i].op = "delete" => c.muts[i].vhost # ""

\* the calls of UpdateAPI among the index calls a call has made
UpdatesOf(c) == SelectSeq(c.muts, LAMBDA m : m.op = "update")

\* a call from the management plane of a payload that parsing accepts
Parsed(c) == c.kind = "apim" /\ ~c.defect /\ ~c.badType /\ ~c.badUrl

\* such a call returned an error before UpdateAPI had succeeded for every
\* vhost of the map: UpdateAPI returned an error or panicked
UpdateFailed(c) ==
  /\ Failed(c) /\ Parsed(c)
  /\ Len(UpdatesOf(c)) < Cardinality(DOMAIN c.V)

\* the revisions a call returns are those of its successful UpdateAPI calls, in
\* order, each with the vhost and the environments of that call
RevisionsAsApplied(c) ==
  /\ Len(c.revs) = Len(UpdatesOf(c))
  /\ \A i \in 1..Len(c.revs) :
       c.revs[i] = DeployedRevision(UpdatesOf(c)[i].vhost, c.y, UpdatesOf(c)[i].envs)

\* C23: a successful ApplyAPIProjectFromAPIM(p, V) returns exactly one
\* DeployedRevision per vhost key of V for which the index emitted one, each
\* carrying that vhost and the environments it was applied to; when an
\* UpdateAPI fails the call returns the revisions collected so far with the
\* canonical error and executes no removal.
C23_RevisionsPerVhost ==
  \A w \in Workers :
    LET c == calls[w] IN
    /\ (Succeeded(c) /\ Parsed(c)) =>
         /\ RevisionsAsApplied(c)
         /\ {c.revs[i].vhost : i \in 1..Len(c.revs)} = DOMAIN c.V
         /\ Len(c.revs) = Cardinality(DOMAIN c.V)
    /\ UpdateFailed(c) =>
         /\ RevisionsAsApplied(c)
         /\ c.err = CanonicalError(c.y)
         /\ UpdatesOf(c) = c.muts

\* a call over two vhosts returned two revisions
C23_Witness ==
  \E w \in Workers :
    LET c == calls[w] IN
    /\ Succeeded(c) /\ Parsed(c) /\ Cardinality(DOMAIN c.V) = 2
    /\ Len(c.revs) = 2 /\ c.revs[1].vhost # c.revs[2].vhost

\* a call in standalone mode of a valid project with an explicit deployment
\* list has succeeded
DeployedExplicitly(c) ==
  /\ Succeeded(c) /\ c.kind = "standalone" /\ ~c.depsNil
  /\ ~c.defect /\ ~c.badType /\ ~c.badUrl

\* UpdateAPI was called once for each distinct deployment vhost, with all the
\* environments the deployments list for it, and nothing else was called
OncePerVhost(c) ==
  /\ Len(c.muts) = Cardinality(DOMAIN c.V)
  /\ \A v \in DOMAIN c.V :
       \E i \in 1..Len(c.muts) :
         c.muts[i] = [op |-> "update", vhost |-> v,
                      envs |-> {c.deps[j].DeploymentEnvironment :
                                  j \in {n \in 1..Len(c.deps) : c.deps[n].DeploymentVhost = v}}]
  /\ DOMAIN c.V = {c.deps[j].DeploymentVhost : j \in 1..Len(c.deps)}

\* C24: after a successful ApplyAPIProjectInStandaloneMode(p, override) of a
\* project with an explicit deployment list, UpdateAPI has been called exactly
\* once per distinct deployment vhost with all the environments listed for that
\* vhost, and for every deployment (environment e, vhost v) of p,
\* GetVhostOfAPI(p.id, e) = (v, true).
C24_EveryDeploymentResolves ==
  \A w \in Workers :
    LET c == calls[w] IN
    DeployedExplicitly(c) =>
      /\ OncePerVhost(c)
      /\ \A j \in 1..Len(c.deps) :
           GetVhostOfAPI(envIndex, c.y.ID, c.deps[j].DeploymentEnvironment)
             = [vhost |-> c.deps[j].DeploymentVhost, exists |-> TRUE]

\* NewAPIYaml decoded a manifest and ValidateAPIType has looked at it
Read(c) == c.kind = "manifest" /\ c.pc = "done" /\ c.manifest.file.decodable

\* the URLs of the production and of the sandbox endpoints of a manifest
EndpointUrls(y) ==
  {y.ProductionEndpoints[i].Endpoint : i \in 1..Len(y.ProductionEndpoints)}
  \cup {y.SandBoxEndpoints[i].Endpoint : i \in 1..Len(y.SandBoxEndpoints)}

\* name, version and context are there, there is an endpoint, and no endpoint
\* URL is blank or begins with '/'
Acceptable(y) ==
  /\ y.Name # "" /\ y.Version # "" /\ y.Context # ""
  /\ Len(y.ProductionEndpoints) + Len(y.SandBoxEndpoints) >= 1
  /\ \A u \in EndpointUrls(y) : ~BlankOrRelative(u)

\* C25: ValidateMandatoryFields accepts a manifest if and only if name, version
\* and context are all non-empty, at least one production or sandbox endpoint
\* is present, and every production and sandbox endpoint URL is non-blank and
\* does not begin with '/'; a manifest with only sandbox endpoints (or only
\* production endpoints) is accepted.
C25_MandatoryFieldsAccepted ==
  \A w \in Workers :
    LET c == calls[w] IN
    Read(c) => (c.manifest.mandatory = <<>> <=> Acceptable(c.manifest.y))

\* a manifest with sandbox endpoints only was accepted
C25_Witness ==
  \E w \in Workers :
    LET c == calls[w] IN
    /\ Read(c) /\ c.manifest.mandatory = <<>>
    /\ c.manifest.y.ProductionEndpoints = <<>> /\ Len(c.manifest.y.SandBoxEndpoints) = 1

\* the checks of the validator a manifest fails: an empty name, version or
\* context, no endpoint, a blank or relative production URL, the same in
\* sandbox, the INLINE implementation type, a type that is not supported
FailedChecks(y) ==
  (IF y.Name = "" THEN {"name"} ELSE {})
  \cup (IF y.Version = "" THEN {"version"} ELSE {})
  \cup (IF y.Context = "" THEN {"context"} ELSE {})
  \cup (IF Len(y.ProductionEndpoints) + Len(y.SandBoxEndpoints) < 1 THEN {"endpoints"} ELSE {})
  \cup (IF \E i \in 1..Len(y.ProductionEndpoints) : BlankOrRelative(y.ProductionEndpoints[i].Endpoint)
        THEN {"production url"} ELSE {})
  \cup (IF \E i \in 1..Len(y.SandBoxEndpoints) : BlankOrRelative(y.SandBoxEndpoints[i].Endpoint)
        THEN {"sandbox url"} ELSE {})
  \cup (IF y.EndpointImplementationType = InlineEndpointType THEN {"inline"} ELSE {})
  \cup (IF y.APIType # <<>> /\ y.APIType \notin {HTTP, WS, WEBHOOK} THEN {"type"} ELSE {})

\* the checks the tokens of an error name
NamedChecks(err) ==
  {k \in {"name", "version", "context", "endpoints", "production url", "sandbox url",
          "inline", "type"} :
     \E i \in 1..Len(err) :
       \/ k = "name" /\ err[i] = "API Name "
       \/ k = "version" /\ err[i] = "API Version "
       \/ k = "context" /\ err[i] = "API Context "
       \/ k = "endpoints" /\ err[i] = "API production and sandbox endpoints "
       \/ k = "production url"
            /\ err[i] = "relative urls or empty values are not supported for API production endpoints"
       \/ k = "sandbox url"
            /\ err[i] = "relative urls or empty values are not supported for API sandbox endpoints"
       \/ k = "inline"
            /\ err[i] = "inline endpointImplementationType is not currently supported with Choreo Connect"
       \/ k = "type" /\ err[i] = "API type is not currently supported with Choreo Connect"}

\* the one error the caller of NewAPIYaml and ValidateAPIType gets
\* (extractAPIProject, lines 49-77: the first of the two that is not nil)
ValidatorError(c) == IF c.err # <<>> THEN c.err ELSE c.manifest.typeErr

\* C26: when a project fails several of the validator's checks at once (any
\* combination of: empty name, empty version, empty context, no endpoints,
\* relative or blank endpoint URL in production, the same in sandbox, INLINE
\* implementation type, unsupported type), the validator yields a single error
\* whose reason names every failed check.
C26_ErrorNamesEveryFailedCheck ==
  \A w \in Workers :
    LET c == calls[w] IN
    (Read(c) /\ Cardinality(FailedChecks(c.manifest.y)) > 1) =>
      /\ ValidatorError(c) # <<>>
      /\ FailedChecks(c.manifest.y) \subseteq NamedChecks(ValidatorError(c))

\* list is what the statement gives for the raw endpoints raw: one element for
\* a single object, the elements in the same order for an array, nothing for
\* any other shape
Normalized(raw, list) ==
  IF raw.shape = "object" THEN list = <<[Endpoint |-> raw.eps[1].url]>>
  ELSE IF raw.shape = "array"
       THEN /\ Len(list) = Len(raw.eps)
            /\ \A i \in 1..Len(list) : list[i] = [Endpoint |-> raw.eps[i].url]
       ELSE list = <<>>

\* a single object and the one-element array holding it normalize to list
SameAsOneElementArray(raw, list) ==
  raw.shape = "object" =>
    /\ PopulateEndpointsInfo([ZeroAPIYaml EXCEPT
          !.RawProdEndpoints = RawArray(<<raw.eps[1].url>>)]).ProductionEndpoints = list
    /\ PopulateEndpointsInfo([ZeroAPIYaml EXCEPT
          !.RawSandboxEndpoints = RawArray(<<raw.eps[1].url>>)]).SandBoxEndpoints = list

\* C27: endpoint normalization (PopulateEndpointsInfo), separately for
\* production and sandbox: a raw single object yields a one-element endpoint
\* list, a raw array yields the list of its elements in the same order, any
\* other raw shape yields an empty list; hence a single object and a
\* one-element array holding the same object normalize to equal lists.
C27_EndpointsAreNormalized ==
  \A w \in Workers :
    LET c == calls[w]
        d == c.manifest.file.doc
        y == c.manifest.y
    IN
    Read(c) =>
      /\ Normalized(d.RawProdEndpoints, y.ProductionEndpoints)
      /\ Normalized(d.RawSandboxEndpoints, y.SandBoxEndpoints)
      /\ SameAsOneElementArray(d.RawProdEndpoints, y.ProductionEndpoints)
      /\ SameAsOneElementArray(d.RawSandboxEndpoints, y.SandBoxEndpoints)

\* a manifest with a single production object and an array of two different
\* sandbox endpoints was normalized
C27_Witness ==
  \E w \in Workers :
    LET c == calls[w]
        y == c.manifest.y
    IN
    /\ Read(c)
    /\ c.manifest.file.doc.RawProdEndpoints.shape = "object"
    /\ Len(y.ProductionEndpoints) = 1
    /\ Len(y.SandBoxEndpoints) = 2 /\ y.SandBoxEndpoints[1] # y.SandBoxEndpoints[2]
    /\ y.SandBoxEndpoints[1].Endpoint = GoodUrl

\* C28: the type check is made on the uppercased type: ValidateAPIType returns
\* no error if and only if the manifest type, after FormatAndUpdateInfo has
\* uppercased it, is HTTP, WS or WEBHOOK (so 'http' and 'Ws' are accepted); an
\* empty type is reported as a missing manifest, and any other value as an
\* unsupported type.
C28_TypeCheckedInUpperCase ==
  \A w \in Workers :
    LET c == calls[w]
        given == c.manifest.file.doc.APIType
        e == c.manifest.typeErr
    IN
    Read(c) =>
      /\ e = <<>> <=> c.manifest.y.APIType \in {HTTP, WS, WEBHOOK}
      /\ given \in {<<"h","t","t","p">>, <<"W","s">>, <<"W","E","B","H","O","O","K">>} => e = <<>>
      /\ given = <<>> => e = <<"could not find api.yaml or api.json">>
      /\ given = <<"s","o","a","p">> =>
           e = <<"API type is not currently supported with Choreo Connect">>
      /\ Len(c.manifest.y.APIType) = Len(given)

\* a manifest of type 'Ws' passed the type check
C28_Witness ==
  \E w \in Workers :
    LET c == calls[w] IN
    /\ Read(c) /\ c.manifest.file.doc.APIType = <<"W","s">>
    /\ c.manifest.y.APIType = WS /\ c.manifest.typeErr = <<>>

\* the vhosts under which the API is active in environment env
ActiveVhosts(vi, id, env) == {k[1] : k \in {x \in DOMAIN vi : x[3] = id /\ env \in vi[x].envs}}

\* the calls of the two workers have run concurrently and both returned
\* success; they moved the same API, which was under the vhost from, to two
\* different vhosts in environment env
BothRelocated(from, env) ==
  LET c1 == calls["w1"]
      c2 == calls["w2"]
  IN  /\ Succeeded(c1) /\ Succeeded(c2) /\ c1.kind = "apim" /\ c2.kind = "apim"
      /\ c1.y.ID = c2.y.ID
      /\ c1.pre = c2.pre
      /\ ActiveVhosts(c1.pre.vh, c1.y.ID, env) = {from}
      /\ GetVhostOfAPI(c1.pre.env, c1.y.ID, env) = [vhost |-> from, exists |-> TRUE]
      /\ DOMAIN c1.V # DOMAIN c2.V
      /\ from \notin (DOMAIN c1.V) \cup (DOMAIN c2.V)
      /\ \A v \in DOMAIN c1.V : env \in Range(c1.V[v])
      /\ \A v \in DOMAIN c2.V : env \in Range(c2.V[v])

\* C29: when two ApplyAPIProjectFromAPIM calls that relocate the same API to
\* two different vhosts in the same environment run concurrently, each one
\* interleaving its index reads, updates and deletions with the other's, then
\* once both have returned the API is active under exactly one vhost in that
\* environment, neither under both nor under none.
C29_OneVhostAfterConcurrentRelocations ==
  \A from \in RelocationVhosts, env \in Environments :
    BothRelocated(from, env) =>
      Cardinality(ActiveVhosts(vhostIndex, calls["w1"].y.ID, env)) = 1

\* the calls of the two workers created the same project concurrently, on an
\* index that did not hold it, and both have returned
CreatedTogether ==
  LET c1 == calls["w1"]
      c2 == calls["w2"]
  IN  /\ Done(c1) /\ Done(c2) /\ c1.kind = "standalone" /\ c2.kind = "standalone"
      /\ ~c1.override /\ ~c2.override
      /\ c1.y = c2.y /\ c1.deps = c2.deps
      /\ c1.pre = c2.pre
      /\ \A v \in Vhosts :
           ~IsAPIExist(c1.pre.vh, v, c1.y.ID, c1.y.Name, c1.y.Version, c1.y.OrganizationID)

\* C30: create is atomic with respect to the existence check: when two
\* ApplyAPIProjectInStandaloneMode(p, override = false) calls for the same
\* project run concurrently on an index that does not contain p, at most one
\* of them succeeds and the other returns AlreadyExists.
C30_OneCreateWins ==
  LET c1 == calls["w1"]
      c2 == calls["w2"]
  IN  CreatedTogether =>
        /\ ~(Succeeded(c1) /\ Succeeded(c2))
        /\ Succeeded(c1) => (c2.err = AlreadyExists \/ c2.muts # <<>> \/ c2.recovered \/ c2.err = XdsError)
        /\ Succeeded(c2) => (c1.err = AlreadyExists \/ c1.muts # <<>> \/ c1.recovered \/ c1.err = XdsError)

\* C31: determinism of a multi-vhost apply: for every index state and every
\* map V, the index state and the set of DeployedRevision values returned after
\* ApplyAPIProjectFromAPIM(p, V) do not depend on the order in which the vhost
\* keys of V are iterated: what a successful call left and returned is what the
\* call leaves and returns in every order of the keys.
C31_IterationOrderIsImmaterial ==
  \A w \in Workers :
    LET c == calls[w] IN
    (Succeeded(c) /\ Parsed(c)) =>
      \A o \in Orders(c.V) :
        /\ IndexNow = ApplyInOrder(c.pre, c.y, c.V, o).idx
        /\ Range(c.revs) = Range(ApplyInOrder(c.pre, c.y, c.V, o).revs)

\* C32: every ApplyAPIProjectInStandaloneMode call that returns without error
\* leaves the project deployed: afterwards IsAPIExist is true on at least one
\* vhost for the project, also when the deployment list of the project is
\* present but empty.
C32_SuccessLeavesProjectDeployed ==
  \A w \in Workers :
    LET c == calls[w] IN
    (Succeeded(c) /\ c.kind = "standalone") =>
      \E v \in Vhosts :
        IsAPIExist(vhostIndex, v, c.y.ID, c.y.Name, c.y.Version, c.y.OrganizationID)

\* an artifact that reached validateAndUpdateXds with a valid project
ValidArtifact(a) ==
  /\ a.child.kind \in {"dir", "zip"}
  /\ ~a.defect /\ ~a.badType /\ ~a.badUrl

\* two artifacts carry the same API
SameAPI(a, b) ==
  /\ a.y.ID = b.y.ID /\ a.y.Name = b.y.Name /\ a.y.Version = b.y.Version
  /\ a.y.OrganizationID = b.y.OrganizationID

\* validateAndUpdateXds deployed the artifact
Deployed(a) == ValidArtifact(a) /\ a.err = <<>> /\ a.muts # <<>>

\* C33: ProcessMountedAPIProjects applies every artifact with override false:
\* when two artifacts of the directory (two directories, two .zip files, or one
\* of each) carry the same API, the one enumerated first is deployed, the later
\* one is skipped with AlreadyExists, and the index is as the first left it.
C33_LaterDuplicateIsSkipped ==
  \A w \in Workers :
    LET c == calls[w] IN
    (Done(c) /\ c.kind = "bootstrap") =>
      \A i \in 1..Len(c.arts), j \in 1..Len(c.arts) :
        (i < j /\ Deployed(c.arts[i]) /\ ValidArtifact(c.arts[j])
               /\ SameAPI(c.arts[i], c.arts[j])) =>
          /\ c.arts[j].err = AlreadyExists
          /\ c.arts[j].muts = <<>>

====
